---- MODULE Spec2Model ----
(***************************************************************************)
(* Model of the grocery ledger engine, src/src/grocery/simulator.py        *)
(* (class GrocerySimulator) with the records of src/src/grocery/models.py. *)
(*                                                                         *)
(* A line is the sequence of tokens line.strip().split() yields; a token   *)
(* is a string.  float() is the table FloatTable over the numeric tokens   *)
(* used here, every other token raises ValueError.                         *)
(*                                                                         *)
(* A Python float is an IEEE 754 binary64 number: a sign, a significand of *)
(* Precision bits and an exponent, and every operation on floats rounds    *)
(* its exact result to the nearest such number, ties to the even           *)
(* significand.  The significands do not fit the integers of the model     *)
(* checker, so they are held as sequences of digits in base Radix.  The    *)
(* amounts of the alphabet stay far from the largest and the smallest      *)
(* binary64 numbers: overflow, subnormal numbers and NaN are not modelled, *)
(* and an infinity only as a quantity, where int() raises OverflowError.   *)
(***************************************************************************)
EXTENDS Integers, Sequences, FiniteSets, TLC

VARIABLES
    inventory,   \* self.inventory : item -> deque of Batch (dict keys = DOMAIN)
    discounts,   \* self.discounts : item -> list of percentages
    sales,       \* self.sales     : item -> (sell -> list of SaleLot)
    profit,      \* self.profit
    invalid,     \* self.invalid
    out,         \* the lines printed by the last call of process_line
    stocked,     \* history: units accepted by STOCK so far, per item
    sold,        \* history: units accepted by ORDER so far, per item
    expired,     \* history: units accepted by EXPIRE so far, per item
    returned,    \* history: units accepted by RETURN so far, per item
    written_off, \* history: the cost of the units expired so far
    read,        \* history: the lines of the scenario file read so far
    raised       \* an exception left process_line uncaught: the program ended

vars ==
    <<inventory, discounts, sales, profit, invalid, out, stocked, sold, expired,
      returned, written_off, read, raised>>

(***************************************************************************)
(* Bounds of the model.                                                    *)
(***************************************************************************)
MaxStocked == 2   \* units the input stocks in one run, all items together
MaxDepth == 2     \* discount entries held at one time, all items together
MaxStockedAlone == 4   \* units stocked in a run of STOCK commands alone

(***************************************************************************)
(* The input alphabet.                                                     *)
(***************************************************************************)
ItemOrder == <<"A", "Apple", "B", "Peer">>     \* item names, in sorted() order
ItemNames == {ItemOrder[k] : k \in 1..Len(ItemOrder)}
ItemToks == {"A", "B"}               \* the items of the bounded alphabets

\* well-formed commands on item A
CoreLines ==
    {<<"STOCK", "A", q, c>> : q \in {"0", "1", "2", "1.5"}, c \in {"1.00", "2.00"}}
    \cup {<<"ORDER", "A", q, p>> : q \in {"0", "1", "2"}, p \in {"2.00", "1.00"}}
    \cup {<<"EXPIRE", "A", q>> : q \in {"0", "1", "2", "0.9"}}
    \cup {<<"RETURN", "A", q, p>> : q \in {"0", "1", "2"}, p \in {"2.00", "1.00"}}
    \cup {<<"RETURN", "A", "0", "-1">>}
    \cup {<<"DISCOUNT", "A", d>> : d \in {"50", "10"}}
    \cup {<<"DISCOUNT_END", "A">>, <<"CHECK">>, <<"PROFIT">>, <<>>, <<"#">>}

\* well-formed commands on a second item
SideLines ==
    {<<"STOCK", "B", "1", "1.00">>, <<"ORDER", "B", "1", "1.00">>,
     <<"EXPIRE", "B", "1">>, <<"RETURN", "B", "1", "1.00">>,
     <<"ORDER", "B", "0", "1.00">>, <<"EXPIRE", "B", "0">>,
     <<"RETURN", "B", "0", "2.00">>,
     <<"DISCOUNT", "B", "50">>, <<"DISCOUNT_END", "B">>}

\* wrong arity, unknown keyword, tokens that are no numbers, illegal values
BadLines ==
    {<<"STOCK", "A", "1">>, <<"ORDER", "A", "1">>, <<"EXPIRE", "A">>,
     <<"RETURN", "A", "1">>, <<"DISCOUNT", "A">>, <<"DISCOUNT_END">>,
     <<"CHECK", "A">>, <<"PROFIT", "A">>, <<"SELL", "A", "1", "2.00">>,
     <<"STOCK", "A", "x", "1.00">>, <<"STOCK", "A", "1", "x">>,
     <<"ORDER", "A", "x", "2.00">>, <<"ORDER", "A", "1", "x">>,
     <<"EXPIRE", "A", "x">>, <<"RETURN", "A", "x", "2.00">>,
     <<"RETURN", "A", "1", "x">>, <<"DISCOUNT", "A", "x">>,
     <<"STOCK", "A", "-1", "1.00">>, <<"STOCK", "A", "1", "0">>,
     <<"STOCK", "A", "1", "-1">>, <<"ORDER", "A", "-1", "2.00">>,
     <<"ORDER", "A", "1", "-1">>, <<"EXPIRE", "A", "-1">>,
     <<"RETURN", "A", "-1", "2.00">>, <<"ORDER", "A", "0", "-1">>}

\* the alphabet of the runs on one item
Lines == CoreLines \cup BadLines

\* the alphabet of the runs on two items
ItemLines ==
    {<<"STOCK", "A", "1", "1.00">>, <<"ORDER", "A", "1", "2.00">>,
     <<"EXPIRE", "A", "1">>, <<"RETURN", "A", "1", "2.00">>,
     <<"RETURN", "A", "1", "1.00">>, <<"DISCOUNT", "A", "50">>,
     <<"DISCOUNT_END", "A">>, <<"CHECK">>, <<"PROFIT">>, <<>>,
     <<"SELL", "A", "1", "2.00">>}
    \cup SideLines

Min(a, b) == IF a <= b THEN a ELSE b

Max(a, b) == IF a >= b THEN a ELSE b

(***************************************************************************)
(* Natural numbers of any size: the sequence of the digits in base Radix,  *)
(* lowest digit first, no zero digit at the top; zero is <<>>.             *)
(***************************************************************************)
LimbBits == 15

Radix == 2^LimbBits

RECURSIVE Norm(_)
Norm(a) ==
    IF a = <<>> THEN a
    ELSE IF a[Len(a)] = 0 THEN Norm(SubSeq(a, 1, Len(a) - 1))
    ELSE a

Limb(a, i) == IF i >= 1 /\ i <= Len(a) THEN a[i] ELSE 0

RECURSIVE BigOf(_)
BigOf(n) == IF n = 0 THEN <<>> ELSE <<n % Radix>> \o BigOf(n \div Radix)

RECURSIVE IntOfBig(_)
IntOfBig(a) == IF a = <<>> THEN 0 ELSE Head(a) + Radix * IntOfBig(Tail(a))

\* the number of bits of a
BitLen(a) ==
    IF a = <<>> THEN 0
    ELSE LimbBits * (Len(a) - 1)
             + (CHOOSE n \in 1..LimbBits : 2^(n - 1) <= a[Len(a)] /\ a[Len(a)] < 2^n)

RECURSIVE AddFrom(_, _, _, _)
AddFrom(a, b, i, carry) ==
    IF i > Len(a) /\ i > Len(b)
    THEN IF carry = 0 THEN <<>> ELSE <<carry>>
    ELSE LET s == Limb(a, i) + Limb(b, i) + carry
         IN  <<s % Radix>> \o AddFrom(a, b, i + 1, s \div Radix)

BAdd(a, b) == AddFrom(a, b, 1, 0)

RECURSIVE SubFrom(_, _, _, _)
SubFrom(a, b, i, borrow) ==
    IF i > Len(a) THEN <<>>
    ELSE LET d == a[i] - Limb(b, i) - borrow
         IN  IF d < 0 THEN <<d + Radix>> \o SubFrom(a, b, i + 1, 1)
             ELSE <<d>> \o SubFrom(a, b, i + 1, 0)

\* a - b, for a >= b
BSub(a, b) == Norm(SubFrom(a, b, 1, 0))

\* -1, 0 or 1 as a is less than, equal to or greater than b
BCmp(a, b) ==
    IF Len(a) # Len(b) THEN (IF Len(a) < Len(b) THEN -1 ELSE 1)
    ELSE LET D == {i \in 1..Len(a) : a[i] # b[i]}
         IN  IF D = {} THEN 0
             ELSE LET i == CHOOSE i \in D : \A j \in D : j <= i
                  IN  IF a[i] < b[i] THEN -1 ELSE 1

RECURSIVE MulLimbFrom(_, _, _, _)
MulLimbFrom(a, d, i, carry) ==
    IF i > Len(a)
    THEN IF carry = 0 THEN <<>> ELSE <<carry>>
    ELSE LET p == a[i] * d + carry
         IN  <<p % Radix>> \o MulLimbFrom(a, d, i + 1, p \div Radix)

\* a * d, for a digit d
BMulLimb(a, d) == IF d = 0 THEN <<>> ELSE MulLimbFrom(a, d, 1, 0)

RECURSIVE BMul(_, _)
BMul(a, b) ==
    IF a = <<>> \/ b = <<>> THEN <<>>
    ELSE LET rest == BMul(a, Tail(b))
         IN  BAdd(BMulLimb(a, Head(b)),
                  IF rest = <<>> THEN <<>> ELSE <<0>> \o rest)

\* quotient and remainder of a by a digit d > 0, from digit i of a down
RECURSIVE DivLimbFrom(_, _, _, _)
DivLimbFrom(a, d, i, rem) ==
    IF i = 0 THEN [q |-> <<>>, r |-> rem]
    ELSE LET cur == rem * Radix + a[i]
             rest == DivLimbFrom(a, d, i - 1, cur % d)
         IN  [q |-> Append(rest.q, cur \div d), r |-> rest.r]

BDivLimb(a, d) == [DivLimbFrom(a, d, Len(a), 0) EXCEPT !.q = Norm(@)]

\* a * 2^k
BShl(a, k) ==
    IF a = <<>> THEN <<>>
    ELSE LET w == k \div LimbBits
             b == k % LimbBits
             hi == 2^(LimbBits - b)
         IN  Norm([i \in 1..(w + Len(a) + 1) |->
                      IF i <= w THEN 0
                      ELSE (Limb(a, i - w) % hi) * 2^b + Limb(a, i - w - 1) \div hi])

\* a \div 2^k
BShr(a, k) ==
    LET w == k \div LimbBits
        b == k % LimbBits
        lo == 2^b
    IN  Norm([i \in 1..Max(0, Len(a) - w) |->
                 Limb(a, i + w) \div lo + (Limb(a, i + w + 1) % lo) * 2^(LimbBits - b)])

\* a % 2^k
BLow(a, k) ==
    LET w == k \div LimbBits
        b == k % LimbBits
    IN  Norm([i \in 1..Min(Len(a), w + 1) |->
                 IF i <= w THEN a[i] ELSE a[i] % 2^b])

\* q or q + 1 as the part cut off q compares (c) with one half: to the
\* nearest integer, ties to the even one
RoundUp(q, c) ==
    IF c > 0 \/ (c = 0 /\ Limb(q, 1) % 2 = 1) THEN BAdd(q, <<1>>) ELSE q

\* a / 2^k rounded to the nearest integer, ties to the even one
RoundShr(a, k) ==
    IF k = 0 THEN a
    ELSE RoundUp(BShr(a, k), BCmp(BLow(a, k), BShl(<<1>>, k - 1)))

(***************************************************************************)
(* Python floats.  [neg, man, exp] is the number (-1)^neg * man * 2^exp;   *)
(* man has Precision bits, or is <<>> with exp = 0 for the two zeros.      *)
(***************************************************************************)
Precision == 53

FZero(neg) == [neg |-> neg, man |-> <<>>, exp |-> 0]

\* (-1)^neg * q * 2^e for a q of Precision bits, or of one bit more when
\* the rounding has carried into a new bit
FCarry(neg, q, e) ==
    IF BCmp(q, BShl(<<1>>, Precision)) = 0
    THEN [neg |-> neg, man |-> BShl(<<1>>, Precision - 1), exp |-> e + 1]
    ELSE [neg |-> neg, man |-> q, exp |-> e]

\* the float nearest (-1)^neg * n * 2^e, for n of len bits
FRoundLen(neg, n, e, len) ==
    IF len <= Precision
    THEN [neg |-> neg, man |-> BShl(n, Precision - len),
          exp |-> e - (Precision - len)]
    ELSE FCarry(neg, RoundShr(n, len - Precision), e + (len - Precision))

\* the float nearest (-1)^neg * n * 2^e, ties to the even significand
FRound(neg, n, e) ==
    IF n = <<>> THEN FZero(neg) ELSE FRoundLen(neg, n, e, BitLen(n))

\* float(n) for an int n
FOfInt(n) == FRound(n < 0, BigOf(IF n < 0 THEN -n ELSE n), 0)

\* -1, 0 or 1 as x < 0, x == 0 or x > 0
FSign(x) == IF x.man = <<>> THEN 0 ELSE IF x.neg THEN -1 ELSE 1

FNeg(x) == [x EXCEPT !.neg = ~x.neg]

\* (-1)^xneg * a * 2^e + (-1)^yneg * b * 2^e, where c compares a with b
FAddCompared(xneg, a, yneg, b, e, c) ==
    IF xneg # yneg /\ c = 0 THEN FZero(FALSE)
    ELSE FRound(IF xneg = yneg \/ c > 0 THEN xneg ELSE yneg,
                IF xneg = yneg THEN BAdd(a, b)
                ELSE IF c > 0 THEN BSub(a, b) ELSE BSub(b, a),
                e)

FAddAligned(xneg, a, yneg, b, e) ==
    FAddCompared(xneg, a, yneg, b, e, BCmp(a, b))

\* x + y
FAdd(x, y) ==
    IF x.man = <<>> /\ y.man = <<>> THEN FZero(x.neg /\ y.neg)
    ELSE IF x.man = <<>> THEN y
    ELSE IF y.man = <<>> THEN x
    ELSE IF x.exp - y.exp > Precision + 1 THEN x
    ELSE IF y.exp - x.exp > Precision + 1 THEN y
    ELSE FAddAligned(x.neg, BShl(x.man, x.exp - Min(x.exp, y.exp)),
                     y.neg, BShl(y.man, y.exp - Min(x.exp, y.exp)),
                     Min(x.exp, y.exp))

\* x - y
FSub(x, y) == FAdd(x, FNeg(y))

\* x * y
FMul(x, y) ==
    IF x.man = <<>> \/ y.man = <<>> THEN FZero(x.neg # y.neg)
    ELSE FRound(x.neg # y.neg, BMul(x.man, y.man), x.exp + y.exp)

\* x / d for an int d with 0 < d < Radix: the quotient to two digits more
\* than x has, with a last bit that tells whether the division left a remainder
FDivLimb(x, res) ==
    FRound(x.neg, BAdd(BShl(res.q, 1), IF res.r = 0 THEN <<>> ELSE <<1>>),
           x.exp - 2 * LimbBits - 1)

FDivInt(x, d) ==
    IF x.man = <<>> THEN x ELSE FDivLimb(x, BDivLimb(<<0, 0>> \o x.man, d))

\* int(x): truncation toward zero
IntOf(x) ==
    (IF x.neg THEN -1 ELSE 1)
        * IntOfBig(IF x.exp >= 0 THEN BShl(x.man, x.exp) ELSE BShr(x.man, -x.exp))

\* round(abs(x) * 100), ties to even: the cents f"{x:.2f}" prints
Cents(x) ==
    IntOfBig(IF x.exp >= 0 THEN BShl(BMulLimb(x.man, 100), x.exp)
             ELSE RoundShr(BMulLimb(x.man, 100), -x.exp))

(***************************************************************************)
(* Parsing: float(tok) and int(float(tok)).  float() yields the float      *)
(* nearest the decimal number the token writes, here n / d for ints n, d.  *)
(***************************************************************************)
Decimal(n, d) == FDivInt(FOfInt(n), d)

\* the decimal number each numeric token writes, as <<n, d>> for n / d
Numerals ==
    ("0" :> <<0, 1>>) @@ ("1" :> <<1, 1>>) @@ ("2" :> <<2, 1>>) @@
    ("-1" :> <<-1, 1>>) @@ ("1.5" :> <<15, 10>>) @@
    ("1.00" :> <<100, 100>>) @@ ("2.00" :> <<200, 100>>) @@
    ("10" :> <<10, 1>>) @@ ("50" :> <<50, 1>>) @@
    ("0.9" :> <<9, 10>>) @@ ("-0.5" :> <<-5, 10>>) @@
    ("-1.5" :> <<-15, 10>>) @@ ("-0" :> <<0, 1>>) @@
    ("100" :> <<100, 1>>) @@ ("20" :> <<20, 1>>) @@
    ("5" :> <<5, 1>>) @@ ("1.50" :> <<150, 100>>) @@
    ("150" :> <<150, 1>>) @@ ("-10" :> <<-10, 1>>)

\* float(tok) of the numeric tokens; "-0" is the negative zero
FloatTable ==
    [tok \in DOMAIN Numerals |->
        IF tok = "-0" THEN FZero(TRUE)
        ELSE Decimal(Numerals[tok][1], Numerals[tok][2])]

IsFloat(tok) == tok \in DOMAIN FloatTable

\* float(tok) is an infinity: int() of it raises OverflowError
Infinite(tok) == tok \in {"inf", "-inf", "1e400"}

Float(tok) == FloatTable[tok]

(***************************************************************************)
(* Dictionaries with default-on-access (collections.defaultdict).          *)
(***************************************************************************)
Touch(d, k, default) == IF k \in DOMAIN d THEN d ELSE (k :> default) @@ d

Put(d, k, v) == (k :> v) @@ d

Empty == [k \in {} |-> <<>>]

RECURSIVE SumQty(_)
SumQty(seq) == IF seq = <<>> THEN 0 ELSE Head(seq).qty + SumQty(Tail(seq))

\* variant of ActiveDiscount: the percentage pushed first stays the active one
ActiveDiscountOldest(disc, item) ==
    IF item \in DOMAIN disc /\ disc[item] # <<>>
    THEN disc[item][1]
    ELSE FZero(FALSE)

\* _active_discount(item), read after the access has created the key
ActiveDiscount(disc, item) ==
    IF item \in DOMAIN disc /\ disc[item] # <<>>
    THEN disc[item][Len(disc[item])]
    ELSE FZero(FALSE)

\* variant of Short: the comparison off by one
ShortOffByOne(available, qty) == available + 1 < qty

\* "if self._total_available(item) < qty": the stock does not cover qty
Short(available, qty) == available < qty

\* variant of SaleKey: the sale recorded under the discounted price
SaleKeyDiscounted(sell, sell_after_discount) == sell_after_discount

\* the key of self.sales[item] a sale is recorded under
SaleKey(sell, sell_after_discount) == sell

\* variant of TotalAvailable: the oldest batch counted alone
TotalAvailableOldest(inv, item) ==
    IF item \in DOMAIN inv /\ inv[item] # <<>> THEN inv[item][1].qty ELSE 0

\* _total_available(item), read after the access has created the key
TotalAvailable(inv, item) ==
    IF item \in DOMAIN inv THEN SumQty(inv[item]) ELSE 0

Init ==
    /\ inventory = Empty
    /\ discounts = Empty
    /\ sales = Empty
    /\ profit = FZero(FALSE)
    /\ invalid = FALSE
    /\ out = <<>>
    /\ stocked = [i \in ItemNames |-> 0]
    /\ sold = [i \in ItemNames |-> 0]
    /\ expired = [i \in ItemNames |-> 0]
    /\ returned = [i \in ItemNames |-> 0]
    /\ written_off = FZero(FALSE)
    /\ read = <<>>
    /\ raised = FALSE

\* a key of a dict: the two zeros are equal and hash alike
DictKey(x) == IF x.man = <<>> THEN FZero(FALSE) ELSE x

\* variant of SellAfterDiscount: the active discount not applied
SellUndiscounted(sell, discount_pct) == sell

\* sell * (1 - discount_pct / 100)
SellAfterDiscount(sell, discount_pct) ==
    FMul(sell, FSub(FOfInt(1), FDivInt(discount_pct, 100)))

(***************************************************************************)
(* ORDER: the loop that consumes the batches of an item oldest first.      *)
(***************************************************************************)
\* SaleComponent(qty, unit_cost, unit_sell_after_discount)
SaleComponent(qty, unit_cost, unit_sell_after_discount) ==
    [qty |-> qty, unit_cost |-> unit_cost,
     unit_sell_after_discount |-> unit_sell_after_discount]

\* variant of OrderLoop: a component recorded with the quantity of its batch
RECURSIVE OrderLoopWholeBatch(_, _, _, _, _)
OrderLoopWholeBatch(batches, remaining_qty, sell_after_discount, prof, components) ==
    IF remaining_qty > 0 /\ batches # <<>>
    THEN LET batch == Head(batches)
             take_qty == Min(remaining_qty, batch.qty)
             left == batch.qty - take_qty
         IN  OrderLoopWholeBatch(
                 IF left = 0 THEN Tail(batches)
                 ELSE <<[batch EXCEPT !.qty = left]>> \o Tail(batches),
                 remaining_qty - take_qty,
                 sell_after_discount,
                 FAdd(prof, FMul(FOfInt(take_qty),
                                 FSub(sell_after_discount, batch.cost))),
                 Append(components,
                        SaleComponent(batch.qty, batch.cost, sell_after_discount)))
    ELSE [batches |-> batches, profit |-> prof, components |-> components,
          remaining_qty |-> remaining_qty]

RECURSIVE OrderLoop(_, _, _, _, _)
OrderLoop(batches, remaining_qty, sell_after_discount, prof, components) ==
    IF remaining_qty > 0 /\ batches # <<>>
    THEN LET batch == Head(batches)
             take_qty == Min(remaining_qty, batch.qty)
             left == batch.qty - take_qty
         IN  OrderLoop(
                 IF left = 0 THEN Tail(batches)
                 ELSE <<[batch EXCEPT !.qty = left]>> \o Tail(batches),
                 remaining_qty - take_qty,
                 sell_after_discount,
                 FAdd(prof, FMul(FOfInt(take_qty),
                                 FSub(sell_after_discount, batch.cost))),
                 Append(components,
                        SaleComponent(take_qty, batch.cost, sell_after_discount)))
    ELSE [batches |-> batches, profit |-> prof, components |-> components,
          remaining_qty |-> remaining_qty]

(***************************************************************************)
(* EXPIRE: the loop that writes the oldest units off.                      *)
(***************************************************************************)
\* variant of ExpireLoop: the newest batch written off first
RECURSIVE ExpireLoopNewestFirst(_, _, _)
ExpireLoopNewestFirst(batches, remaining_qty, prof) ==
    IF remaining_qty > 0 /\ batches # <<>>
    THEN LET n == Len(batches)
             batch == batches[n]
             take_qty == Min(remaining_qty, batch.qty)
             left == batch.qty - take_qty
         IN  ExpireLoopNewestFirst(
                 IF left = 0 THEN SubSeq(batches, 1, n - 1)
                 ELSE Append(SubSeq(batches, 1, n - 1), [batch EXCEPT !.qty = left]),
                 remaining_qty - take_qty,
                 FSub(prof, FMul(FOfInt(take_qty), batch.cost)))
    ELSE [batches |-> batches, profit |-> prof, remaining_qty |-> remaining_qty]

\* variant of ExpireLoop: the loop left after the first batch
ExpireLoopOneBatch(batches, remaining_qty, prof) ==
    IF remaining_qty > 0 /\ batches # <<>>
    THEN LET batch == Head(batches)
             take_qty == Min(remaining_qty, batch.qty)
             left == batch.qty - take_qty
         IN  [batches |-> IF left = 0 THEN Tail(batches)
                          ELSE <<[batch EXCEPT !.qty = left]>> \o Tail(batches),
              profit |-> FSub(prof, FMul(FOfInt(take_qty), batch.cost)),
              remaining_qty |-> remaining_qty - take_qty]
    ELSE [batches |-> batches, profit |-> prof, remaining_qty |-> remaining_qty]

\* the cost of the units of a sequence of batches
RECURSIVE CostOf(_)
CostOf(batches) ==
    IF batches = <<>> THEN FZero(FALSE)
    ELSE FAdd(FMul(FOfInt(Head(batches).qty), Head(batches).cost),
              CostOf(Tail(batches)))

RECURSIVE ExpireLoop(_, _, _)
ExpireLoop(batches, remaining_qty, prof) ==
    IF remaining_qty > 0 /\ batches # <<>>
    THEN LET batch == Head(batches)
             take_qty == Min(remaining_qty, batch.qty)
             left == batch.qty - take_qty
         IN  ExpireLoop(
                 IF left = 0 THEN Tail(batches)
                 ELSE <<[batch EXCEPT !.qty = left]>> \o Tail(batches),
                 remaining_qty - take_qty,
                 FSub(prof, FMul(FOfInt(take_qty), batch.cost)))
    ELSE [batches |-> batches, profit |-> prof, remaining_qty |-> remaining_qty]

(***************************************************************************)
(* RETURN: the loop over the components of one lot (oldest first) and the  *)
(* loop over the lots of one price (newest first).                         *)
(***************************************************************************)
\* variant of UnitProfit: the price refunded, the cost basis forgotten
UnitPriceOnly(component) == component.unit_sell_after_discount

\* variant of ReturnComponents: the components consumed newest first
RECURSIVE ReturnComponentsNewestFirst(_, _, _)
ReturnComponentsNewestFirst(components, lot_remaining, prof) ==
    IF lot_remaining > 0 /\ components # <<>>
    THEN LET n == Len(components)
             component == components[n]
             front == SubSeq(components, 1, n - 1)
         IN  IF component.qty <= 0
             THEN ReturnComponentsNewestFirst(front, lot_remaining, prof)
             ELSE LET take_qty == Min(lot_remaining, component.qty)
                      left == component.qty - take_qty
                  IN  ReturnComponentsNewestFirst(
                          IF left = 0 THEN front
                          ELSE Append(front, [component EXCEPT !.qty = left]),
                          lot_remaining - take_qty,
                          FSub(prof,
                               FMul(FOfInt(take_qty),
                                    FSub(component.unit_sell_after_discount,
                                         component.unit_cost))))
    ELSE [components |-> components, profit |-> prof,
          lot_remaining |-> lot_remaining]

\* the profit a returned unit of a component takes back
UnitProfit(component) ==
    FSub(component.unit_sell_after_discount, component.unit_cost)

RECURSIVE ReturnComponents(_, _, _)
ReturnComponents(components, lot_remaining, prof) ==
    IF lot_remaining > 0 /\ components # <<>>
    THEN LET component == Head(components) IN
         IF component.qty <= 0
         THEN ReturnComponents(Tail(components), lot_remaining, prof)
         ELSE LET take_qty == Min(lot_remaining, component.qty)
                  left == component.qty - take_qty
              IN  ReturnComponents(
                      IF left = 0 THEN Tail(components)
                      ELSE <<[component EXCEPT !.qty = left]>> \o Tail(components),
                      lot_remaining - take_qty,
                      FSub(prof, FMul(FOfInt(take_qty), UnitProfit(component))))
    ELSE [components |-> components, profit |-> prof,
          lot_remaining |-> lot_remaining]

\* variant of LotOrder: the lots visited oldest first
LotOrderOldestFirst(lots) == [k \in 1..Len(lots) |-> k]

\* reversed(self.sales[item][sell]): the indices of the lots, newest first
LotOrder(lots) == [k \in 1..Len(lots) |-> Len(lots) + 1 - k]

\* variant of ReturnLots: all the units taken from the first record visited
RECURSIVE ReturnLotsFromOne(_, _, _, _)
ReturnLotsFromOne(lots, order, remaining_qty, prof) ==
    IF order = <<>> \/ remaining_qty <= 0
    THEN [lots |-> lots, profit |-> prof, remaining_qty |-> remaining_qty]
    ELSE IF lots[Head(order)].total_qty <= 0
    THEN ReturnLotsFromOne(lots, Tail(order), remaining_qty, prof)
    ELSE LET lot == lots[Head(order)]
             lot_qty_to_return == remaining_qty
             r == ReturnComponents(lot.components, lot_qty_to_return, prof)
         IN  ReturnLotsFromOne(
                 [lots EXCEPT ![Head(order)] =
                     [lot EXCEPT !.components = r.components,
                                 !.total_qty = lot.total_qty - lot_qty_to_return]],
                 Tail(order),
                 remaining_qty - lot_qty_to_return,
                 r.profit)

RECURSIVE ReturnLots(_, _, _, _)
ReturnLots(lots, order, remaining_qty, prof) ==
    IF order = <<>> \/ remaining_qty <= 0
    THEN [lots |-> lots, profit |-> prof, remaining_qty |-> remaining_qty]
    ELSE IF lots[Head(order)].total_qty <= 0
    THEN ReturnLots(lots, Tail(order), remaining_qty, prof)
    ELSE LET lot == lots[Head(order)]
             lot_qty_to_return == Min(remaining_qty, lot.total_qty)
             r == ReturnComponents(lot.components, lot_qty_to_return, prof)
         IN  ReturnLots(
                 [lots EXCEPT ![Head(order)] =
                     [lot EXCEPT !.components = r.components,
                                 !.total_qty = lot.total_qty - lot_qty_to_return]],
                 Tail(order),
                 remaining_qty - lot_qty_to_return,
                 r.profit)

\* sum(max(0, lot.total_qty) for lot in lots)
RECURSIVE AvailableToReturn(_)
AvailableToReturn(lots) ==
    IF lots = <<>> THEN 0
    ELSE Max(0, Head(lots).total_qty) + AvailableToReturn(Tail(lots))

(***************************************************************************)
(* The report lines.                                                       *)
(***************************************************************************)
\* variant of Sorted: the items in descending order
SortedDescending(S) ==
    SelectSeq([k \in 1..Len(ItemOrder) |-> ItemOrder[Len(ItemOrder) + 1 - k]],
              LAMBDA i : i \in S)

\* sorted(all_items)
Sorted(S) == SelectSeq(ItemOrder, LAMBDA i : i \in S)

\* f"{item}: {qty}"
CheckLine(item, qty) == item \o ": " \o ToString(qty)

TwoDigits(n) == IF n < 10 THEN "0" \o ToString(n) ELSE ToString(n)

\* f"{x:.2f}"
\* c cents as dollars with two decimals
Dollars(c) == ToString(c \div 100) \o "." \o TwoDigits(c % 100)

Format2f(x) == (IF x.neg THEN "-" ELSE "") \o Dollars(Cents(x))

ProfitLine(x) == "Profit/Loss: $" \o Format2f(x)

NALine == "Profit/Loss: NA"

(***************************************************************************)
(* process_line, as the function from the engine's state st (a record of   *)
(* the fields, with the lines printed and the history stocked) and a line  *)
(* to the state the call leaves.                                           *)
(***************************************************************************)
\* "if not line or line.startswith('#')"
Skipped(line) == IF line = <<>> THEN TRUE ELSE line[1] = "#"

Reports == {"CHECK", "PROFIT"}

Commands == {"STOCK", "ORDER", "EXPIRE", "RETURN", "DISCOUNT", "DISCOUNT_END",
             "CHECK", "PROFIT"}

\* variant of Invalidate: the profit cleared with the flag set
InvalidateAndClear(st) ==
    [st EXCEPT !.invalid = TRUE, !.profit = FZero(FALSE)]

\* "self.invalid = True; return", also from the except clause
Invalidate(st) == [st EXCEPT !.invalid = TRUE]

\* an exception that is none of ValueError, IndexError, TypeError leaves the call
Raise(st) == [st EXCEPT !.raised = TRUE]

\* variant of Stock: a cost of zero accepted
StockAtNoCost(st, line) ==
    IF Len(line) # 4 THEN [st EXCEPT !.invalid = TRUE]
    ELSE IF Infinite(line[3]) THEN [st EXCEPT !.raised = TRUE]
    ELSE IF ~IsFloat(line[3]) \/ ~IsFloat(line[4]) THEN [st EXCEPT !.invalid = TRUE]
    ELSE LET item == line[2]
             qty == IntOf(Float(line[3]))
             cost == Float(line[4])
         IN  IF qty < 0 \/ FSign(cost) < 0 THEN [st EXCEPT !.invalid = TRUE]
             ELSE IF qty > 0
             THEN [st EXCEPT
                     !.inventory =
                         Put(st.inventory, item,
                             Append(Touch(st.inventory, item, <<>>)[item],
                                    [qty |-> qty, cost |-> cost])),
                     !.stocked = [@ EXCEPT ![item] = @ + qty]]
             ELSE st

Stock(st, line) ==
    IF Len(line) # 4 THEN Invalidate(st)
    ELSE IF Infinite(line[3]) THEN Raise(st)
    ELSE IF ~IsFloat(line[3]) \/ ~IsFloat(line[4]) THEN Invalidate(st)
    ELSE LET item == line[2]
             qty == IntOf(Float(line[3]))
             cost == Float(line[4])
         IN  IF qty < 0 \/ FSign(cost) <= 0 THEN Invalidate(st)
             ELSE IF qty > 0
             THEN [st EXCEPT
                     !.inventory =
                         Put(st.inventory, item,
                             Append(Touch(st.inventory, item, <<>>)[item],
                                    [qty |-> qty, cost |-> cost])),
                     !.stocked = [@ EXCEPT ![item] = @ + qty]]
             ELSE st

Order(st, line) ==
    IF Len(line) # 4 THEN Invalidate(st)
    ELSE IF Infinite(line[3]) THEN Raise(st)
    ELSE IF ~IsFloat(line[3]) \/ ~IsFloat(line[4]) THEN Invalidate(st)
    ELSE LET item == line[2]
             qty == IntOf(Float(line[3]))
             sell == Float(line[4])
             inv1 == Touch(st.inventory, item, <<>>)
         IN  IF qty < 0 \/ FSign(sell) < 0 THEN Invalidate(st)
             ELSE IF qty = 0 THEN st
             ELSE IF Short(TotalAvailable(inv1, item), qty)
             THEN Invalidate([st EXCEPT !.inventory = inv1])
             ELSE LET disc1 == Touch(st.discounts, item, <<>>)
                      discount_pct == ActiveDiscount(disc1, item)
                      sell_after_discount == SellAfterDiscount(sell, discount_pct)
                      r == OrderLoop(inv1[item], qty, sell_after_discount,
                                     st.profit, <<>>)
                      sale_lot == [sell_price_after_discount |-> sell_after_discount,
                                   total_qty |-> qty,
                                   components |-> r.components]
                      byPrice == Touch(st.sales, item, Empty)[item]
                      key == DictKey(SaleKey(sell, sell_after_discount))
                      lots == Touch(byPrice, key, <<>>)[key]
                  IN  [st EXCEPT
                          !.inventory = Put(inv1, item, r.batches),
                          !.discounts = disc1,
                          !.profit = r.profit,
                          !.sales = Put(st.sales, item,
                                        Put(byPrice, key, Append(lots, sale_lot))),
                          !.sold = [@ EXCEPT ![item] = @ + qty]]

\* variant of Expire: no early return on a zero quantity
ExpireNoZeroReturn(st, line) ==
    IF Len(line) # 3 THEN [st EXCEPT !.invalid = TRUE]
    ELSE IF Infinite(line[3]) THEN [st EXCEPT !.raised = TRUE]
    ELSE IF ~IsFloat(line[3]) THEN [st EXCEPT !.invalid = TRUE]
    ELSE LET item == line[2]
             qty == IntOf(Float(line[3]))
             inv1 == Touch(st.inventory, item, <<>>)
         IN  IF qty < 0 THEN [st EXCEPT !.invalid = TRUE]
             ELSE IF Short(TotalAvailable(inv1, item), qty)
             THEN [st EXCEPT !.inventory = inv1, !.invalid = TRUE]
             ELSE LET r == ExpireLoop(inv1[item], qty, st.profit)
                  IN  [st EXCEPT !.inventory = Put(inv1, item, r.batches),
                                 !.profit = r.profit,
                                 !.expired = [@ EXCEPT ![item] = @ + qty],
                                 !.written_off =
                                     FAdd(@, FSub(CostOf(inv1[item]),
                                                  CostOf(r.batches)))]

Expire(st, line) ==
    IF Len(line) # 3 THEN Invalidate(st)
    ELSE IF Infinite(line[3]) THEN Raise(st)
    ELSE IF ~IsFloat(line[3]) THEN Invalidate(st)
    ELSE LET item == line[2]
             qty == IntOf(Float(line[3]))
             inv1 == Touch(st.inventory, item, <<>>)
         IN  IF qty < 0 THEN Invalidate(st)
             ELSE IF qty = 0 THEN st
             ELSE IF Short(TotalAvailable(inv1, item), qty)
             THEN Invalidate([st EXCEPT !.inventory = inv1])
             ELSE LET r == ExpireLoop(inv1[item], qty, st.profit)
                  IN  [st EXCEPT !.inventory = Put(inv1, item, r.batches),
                                 !.profit = r.profit,
                                 !.expired = [@ EXCEPT ![item] = @ + qty],
                                 !.written_off =
                                     FAdd(@, FSub(CostOf(inv1[item]),
                                                  CostOf(r.batches)))]

\* variant of Return: the returned units put back in stock as a new batch
ReturnRestocks(st, line) ==
    IF Len(line) # 4 THEN [st EXCEPT !.invalid = TRUE]
    ELSE IF Infinite(line[3]) THEN [st EXCEPT !.raised = TRUE]
    ELSE IF ~IsFloat(line[3]) \/ ~IsFloat(line[4]) THEN [st EXCEPT !.invalid = TRUE]
    ELSE LET item == line[2]
             qty == IntOf(Float(line[3]))
             sell == DictKey(Float(line[4]))
         IN  IF qty < 0 THEN [st EXCEPT !.invalid = TRUE]
             ELSE IF qty = 0 THEN st
             ELSE IF item \notin DOMAIN st.sales THEN [st EXCEPT !.invalid = TRUE]
             ELSE IF sell \notin DOMAIN st.sales[item]
             THEN [st EXCEPT !.invalid = TRUE]
             ELSE IF AvailableToReturn(st.sales[item][sell]) < qty
             THEN [st EXCEPT !.invalid = TRUE]
             ELSE LET lots == st.sales[item][sell]
                      r == ReturnLots(lots, LotOrder(lots), qty, st.profit)
                  IN  [st EXCEPT
                          !.sales = Put(st.sales, item,
                                        Put(st.sales[item], sell, r.lots)),
                          !.profit = r.profit,
                          !.returned = [@ EXCEPT ![item] = @ + qty],
                          !.inventory =
                              Put(st.inventory, item,
                                  Append(Touch(st.inventory, item, <<>>)[item],
                                         [qty |-> qty, cost |-> sell]))]

Return(st, line) ==
    IF Len(line) # 4 THEN Invalidate(st)
    ELSE IF Infinite(line[3]) THEN Raise(st)
    ELSE IF ~IsFloat(line[3]) \/ ~IsFloat(line[4]) THEN Invalidate(st)
    ELSE LET item == line[2]
             qty == IntOf(Float(line[3]))
             sell == DictKey(Float(line[4]))
         IN  IF qty < 0 THEN Invalidate(st)
             ELSE IF qty = 0 THEN st
             ELSE IF item \notin DOMAIN st.sales THEN Invalidate(st)
             ELSE IF sell \notin DOMAIN st.sales[item] THEN Invalidate(st)
             ELSE IF AvailableToReturn(st.sales[item][sell]) < qty
             THEN Invalidate(st)
             ELSE LET lots == st.sales[item][sell]
                      r == ReturnLots(lots, LotOrder(lots), qty, st.profit)
                  IN  [st EXCEPT
                          !.sales = Put(st.sales, item,
                                        Put(st.sales[item], sell, r.lots)),
                          !.profit = r.profit,
                          !.returned = [@ EXCEPT ![item] = @ + qty]]

\* variant of Discount: a percentage that does not parse pushed as 0
DiscountLenient(st, line) ==
    IF Len(line) # 3 THEN [st EXCEPT !.invalid = TRUE]
    ELSE LET item == line[2]
             pct == IF IsFloat(line[3]) THEN Float(line[3]) ELSE FZero(FALSE)
         IN  [st EXCEPT
                 !.discounts =
                     Put(st.discounts, item,
                         Append(Touch(st.discounts, item, <<>>)[item], pct))]

\* variant of Discount: a percentage outside 0..100 refused
DiscountInRange(st, line) ==
    IF Len(line) # 3 THEN [st EXCEPT !.invalid = TRUE]
    ELSE IF ~IsFloat(line[3]) THEN [st EXCEPT !.invalid = TRUE]
    ELSE LET item == line[2]
             pct == Float(line[3])
         IN  IF FSign(pct) < 0 \/ FSign(FSub(pct, FOfInt(100))) > 0
             THEN [st EXCEPT !.invalid = TRUE]
             ELSE [st EXCEPT
                     !.discounts =
                         Put(st.discounts, item,
                             Append(Touch(st.discounts, item, <<>>)[item], pct))]

\* variant of Discount: the percentage pushed on the stack of every item
DiscountStoreWide(st, line) ==
    IF Len(line) # 3 THEN [st EXCEPT !.invalid = TRUE]
    ELSE IF ~IsFloat(line[3]) THEN [st EXCEPT !.invalid = TRUE]
    ELSE LET item == line[2]
             pct == Float(line[3])
             disc1 == Touch(st.discounts, item, <<>>)
         IN  [st EXCEPT
                 !.discounts = [i \in DOMAIN disc1 |-> Append(disc1[i], pct)]]

Discount(st, line) ==
    IF Len(line) # 3 THEN Invalidate(st)
    ELSE IF ~IsFloat(line[3]) THEN Invalidate(st)
    ELSE LET item == line[2]
             pct == Float(line[3])
         IN  [st EXCEPT
                 !.discounts =
                     Put(st.discounts, item,
                         Append(Touch(st.discounts, item, <<>>)[item], pct))]

\* variant of DiscountEnd: every discount of the item ended at once
DiscountEndAll(st, line) ==
    IF Len(line) # 2 THEN [st EXCEPT !.invalid = TRUE]
    ELSE [st EXCEPT !.discounts = Put(st.discounts, line[2], <<>>)]

DiscountEnd(st, line) ==
    IF Len(line) # 2 THEN Invalidate(st)
    ELSE LET item == line[2]
             disc1 == Touch(st.discounts, item, <<>>)
         IN  IF disc1[item] # <<>>
             THEN [st EXCEPT
                     !.discounts =
                         Put(disc1, item,
                             SubSeq(disc1[item], 1, Len(disc1[item]) - 1))]
             ELSE [st EXCEPT !.discounts = disc1]

\* variant of Check: a CHECK that prints also ends the discounts
CheckEndsDiscounts(st, line) ==
    IF Len(line) # 1 THEN [st EXCEPT !.invalid = TRUE]
    ELSE IF st.invalid THEN st
    ELSE LET all_items == DOMAIN st.inventory \cup DOMAIN st.discounts
                              \cup DOMAIN st.sales
             order == Sorted(all_items)
             inv1 == [i \in all_items |->
                         IF i \in DOMAIN st.inventory THEN st.inventory[i]
                         ELSE <<>>]
         IN  [st EXCEPT
                 !.out = [k \in 1..Len(order) |->
                             CheckLine(order[k], TotalAvailable(inv1, order[k]))],
                 !.inventory = inv1,
                 !.discounts = [i \in DOMAIN st.discounts |-> <<>>]]

Check(st, line) ==
    IF Len(line) # 1 THEN Invalidate(st)
    ELSE IF st.invalid THEN st
    ELSE LET all_items == DOMAIN st.inventory \cup DOMAIN st.discounts
                              \cup DOMAIN st.sales
             order == Sorted(all_items)
             inv1 == [i \in all_items |->
                         IF i \in DOMAIN st.inventory THEN st.inventory[i]
                         ELSE <<>>]
         IN  [st EXCEPT
                 !.out = [k \in 1..Len(order) |->
                             CheckLine(order[k], TotalAvailable(inv1, order[k]))],
                 !.inventory = inv1]

\* variant of Profit: the flag cleared once NA is printed
ProfitClearsFlag(st, line) ==
    IF Len(line) # 1 THEN [st EXCEPT !.invalid = TRUE]
    ELSE IF st.invalid THEN [st EXCEPT !.out = <<NALine>>, !.invalid = FALSE]
    ELSE [st EXCEPT !.out = <<ProfitLine(st.profit)>>]

Profit(st, line) ==
    IF Len(line) # 1 THEN Invalidate(st)
    ELSE IF st.invalid THEN [st EXCEPT !.out = <<NALine>>]
    ELSE [st EXCEPT !.out = <<ProfitLine(st.profit)>>]

\* variant of Branch: commands not blocked in an invalid engine
BranchUngated(st, line) ==
    IF Skipped(line) THEN "skip"
    ELSE IF line[1] \in Commands THEN line[1]
    ELSE "unknown"

\* the branch of process_line a line takes
Branch(st, line) ==
    IF Skipped(line) THEN "skip"
    ELSE IF st.invalid /\ line[1] \notin Reports THEN "blocked"
    ELSE IF line[1] \in Commands THEN line[1]
    ELSE "unknown"

\* the state as a call finds it: nothing printed yet
Entered(st) == [st EXCEPT !.out = <<>>]

ProcessLine(st, line) ==
    LET s0 == Entered(st)
        b == Branch(st, line)
    IN  CASE b = "skip" -> s0
          [] b = "blocked" -> s0
          [] b = "STOCK" -> Stock(s0, line)
          [] b = "ORDER" -> Order(s0, line)
          [] b = "EXPIRE" -> Expire(s0, line)
          [] b = "RETURN" -> Return(s0, line)
          [] b = "DISCOUNT" -> Discount(s0, line)
          [] b = "DISCOUNT_END" -> DiscountEnd(s0, line)
          [] b = "CHECK" -> Check(s0, line)
          [] b = "PROFIT" -> Profit(s0, line)
          [] OTHER -> Invalidate(s0)

(***************************************************************************)
(* The engine as a state machine: one step is one call of process_line.    *)
(***************************************************************************)
State ==
    [inventory |-> inventory, discounts |-> discounts, sales |-> sales,
     profit |-> profit, invalid |-> invalid, out |-> out, stocked |-> stocked,
     sold |-> sold, expired |-> expired, returned |-> returned,
     written_off |-> written_off, read |-> read, raised |-> raised]

Becomes(st) ==
    /\ inventory' = st.inventory
    /\ discounts' = st.discounts
    /\ sales' = st.sales
    /\ profit' = st.profit
    /\ invalid' = st.invalid
    /\ out' = st.out
    /\ stocked' = st.stocked
    /\ sold' = st.sold
    /\ expired' = st.expired
    /\ returned' = st.returned
    /\ written_off' = st.written_off
    /\ read' = st.read
    /\ raised' = st.raised

RECURSIVE SumOver(_, _)
SumOver(f, S) ==
    IF S = {} THEN 0
    ELSE LET k == CHOOSE k \in S : TRUE IN f[k] + SumOver(f, S \ {k})

TotalStocked == SumOver(stocked, ItemNames)

TotalDepth ==
    SumOver([i \in DOMAIN discounts |-> Len(discounts[i])], DOMAIN discounts)

\* the inputs of a run stay within the bounds
InBounds(line) ==
    /\ (Len(line) = 4 /\ line[1] = "STOCK" /\ IsFloat(line[3]))
           => TotalStocked + Max(0, IntOf(Float(line[3]))) <= MaxStocked
    /\ (Len(line) = 3 /\ line[1] = "DISCOUNT") => TotalDepth < MaxDepth

\* process_line is called on a line that takes branch b
Takes(line, b) == ~raised /\ InBounds(line) /\ Branch(State, line) = b

\* one call of process_line on a line of the alphabet L, by the branch taken
Step(L) ==
    \/ \E line \in L : Takes(line, "skip") /\ Becomes(Entered(State))
    \/ \E line \in L : Takes(line, "blocked") /\ Becomes(Entered(State))
    \/ \E line \in L : Takes(line, "STOCK") /\ Becomes(Stock(Entered(State), line))
    \/ \E line \in L : Takes(line, "ORDER") /\ Becomes(Order(Entered(State), line))
    \/ \E line \in L : Takes(line, "EXPIRE") /\ Becomes(Expire(Entered(State), line))
    \/ \E line \in L : Takes(line, "RETURN") /\ Becomes(Return(Entered(State), line))
    \/ \E line \in L :
          Takes(line, "DISCOUNT") /\ Becomes(Discount(Entered(State), line))
    \/ \E line \in L :
          Takes(line, "DISCOUNT_END") /\ Becomes(DiscountEnd(Entered(State), line))
    \/ \E line \in L : Takes(line, "CHECK") /\ Becomes(Check(Entered(State), line))
    \/ \E line \in L : Takes(line, "PROFIT") /\ Becomes(Profit(Entered(State), line))
    \/ \E line \in L : Takes(line, "unknown") /\ Becomes(Invalidate(Entered(State)))

Next == Step(Lines)

Spec == Init /\ [][Next]_vars

NextItems == Step(ItemLines)

SpecItems == Init /\ [][NextItems]_vars

\* the alphabet of the runs that sell one item at two prices beside another item
LedgerLines == ItemLines \cup {<<"ORDER", "A", "1", "1.00">>}

NextLedgers == Step(LedgerLines)

SpecLedgers == Init /\ [][NextLedgers]_vars

\* the STOCK lines of the runs made of STOCK and CHECK alone
StockLines ==
    {<<"STOCK", i, q, c>> :
        i \in ItemToks, q \in {"0", "1", "2", "1.5"}, c \in {"1.00", "2.00"}}
    \cup {<<"STOCK", "A", "-1", "1.00">>, <<"STOCK", "B", "1", "0">>,
          <<"STOCK", "A", "1">>}

\* the STOCK lines of such a run stay within its bound
StockFits(line) ==
    (Len(line) = 4 /\ IsFloat(line[3]))
        => TotalStocked + Max(0, IntOf(Float(line[3]))) <= MaxStockedAlone

NextStock ==
    \/ \E line \in StockLines :
          /\ StockFits(line)
          /\ Branch(State, line) = "STOCK"
          /\ Becomes(Stock(Entered(State), line))
    \/ \E line \in StockLines :
          Branch(State, line) = "blocked" /\ Becomes(Entered(State))
    \/ Branch(State, <<"CHECK">>) = "CHECK"
          /\ Becomes(Check(Entered(State), <<"CHECK">>))

SpecStock == Init /\ [][NextStock]_vars

\* commands whose quantity is an infinity
InfiniteLines ==
    {<<"STOCK", "A", "inf", "1.00">>, <<"ORDER", "A", "1e400", "2.00">>,
     <<"EXPIRE", "A", "inf">>, <<"RETURN", "A", "-inf", "2.00">>,
     <<"STOCK", "A", "inf", "x">>, <<"EXPIRE", "A", "inf", "1">>}

\* the alphabet of the runs on one item with such commands among the lines
NextInfinite == Step(Lines \cup InfiniteLines)

SpecInfinite == Init /\ [][NextInfinite]_vars

\* variant of Construct: the flag left as the run before left it
ConstructKeepsFlag(st) ==
    [st EXCEPT !.inventory = Empty, !.discounts = Empty, !.sales = Empty,
               !.profit = FZero(FALSE)]

\* GrocerySimulator(): the five fields as __init__ sets them
Construct(st) ==
    [st EXCEPT !.inventory = Empty, !.discounts = Empty, !.sales = Empty,
               !.profit = FZero(FALSE), !.invalid = FALSE]

\* run_file up to its first line: "self.__init__()"; nothing is printed yet
\* and the histories of the run begin
RunFile(st) ==
    [Construct(st) EXCEPT !.out = <<>>, !.stocked = [i \in ItemNames |-> 0],
                          !.sold = [i \in ItemNames |-> 0],
                          !.expired = [i \in ItemNames |-> 0],
                          !.returned = [i \in ItemNames |-> 0],
                          !.written_off = FZero(FALSE), !.read = <<>>]

\* run_file on a path that cannot be opened: "except (IOError, OSError)"
RunFileFails(st) == Invalidate(RunFile(st))

\* the command line: one run_file after another, each on a file of any lines
NextFiles ==
    \/ Step(ItemLines)
    \/ Becomes(RunFile(State))
    \/ Becomes(RunFileFails(State))

SpecFiles == Init /\ [][NextFiles]_vars

\* the official scenario, line by line
Scenario ==
    <<<<"STOCK", "Apple", "100", "1.00">>, <<"ORDER", "Apple", "50", "2.00">>,
      <<"STOCK", "Peer", "20", "1.50">>, <<"DISCOUNT", "Apple", "10">>,
      <<"ORDER", "Apple", "20", "2.00">>, <<"DISCOUNT", "Apple", "5">>,
      <<"ORDER", "Apple", "10", "2.00">>, <<"DISCOUNT_END", "Apple">>,
      <<"ORDER", "Apple", "10", "2.00">>, <<"RETURN", "Apple", "5", "2.00">>,
      <<"EXPIRE", "Apple", "5">>, <<"CHECK">>, <<"PROFIT">>>>

\* a file holds lines of the scenario in their order, any of them left out:
\* the lines that may follow the lines read, by their places in the scenario
Unread == {k \in 1..Len(Scenario) : read = <<>> \/ k > read[Len(read)]}

\* the next line of the file is line k of the scenario and takes branch b
Reads(k, b) == k \in Unread /\ Branch(State, Scenario[k]) = b

\* the state as the call on line k of the scenario finds it
Met(k) == [Entered(State) EXCEPT !.read = Append(@, k)]

\* one call of process_line on the next line of the file, by the branch taken
NextScenario ==
    \/ \E k \in 1..Len(Scenario) : Reads(k, "blocked") /\ Becomes(Met(k))
    \/ \E k \in 1..Len(Scenario) :
          Reads(k, "STOCK") /\ Becomes(Stock(Met(k), Scenario[k]))
    \/ \E k \in 1..Len(Scenario) :
          Reads(k, "ORDER") /\ Becomes(Order(Met(k), Scenario[k]))
    \/ \E k \in 1..Len(Scenario) :
          Reads(k, "EXPIRE") /\ Becomes(Expire(Met(k), Scenario[k]))
    \/ \E k \in 1..Len(Scenario) :
          Reads(k, "RETURN") /\ Becomes(Return(Met(k), Scenario[k]))
    \/ \E k \in 1..Len(Scenario) :
          Reads(k, "DISCOUNT") /\ Becomes(Discount(Met(k), Scenario[k]))
    \/ \E k \in 1..Len(Scenario) :
          Reads(k, "DISCOUNT_END") /\ Becomes(DiscountEnd(Met(k), Scenario[k]))
    \/ \E k \in 1..Len(Scenario) :
          Reads(k, "CHECK") /\ Becomes(Check(Met(k), Scenario[k]))
    \/ \E k \in 1..Len(Scenario) :
          Reads(k, "PROFIT") /\ Becomes(Profit(Met(k), Scenario[k]))

SpecScenario == Init /\ [][NextScenario]_vars

\* every step is a call of process_line on a line of the alphabets
StepIsProcessLine ==
    [][\E line \in Lines \cup LedgerLines \cup StockLines :
          Becomes(ProcessLine(State, line))]_vars

(***************************************************************************)
(* Vocabulary of the properties: the lines of both alphabets, the state a  *)
(* call leaves, and the ledgers read item by item.                         *)
(***************************************************************************)
AllLines == Lines \cup LedgerLines

\* the state process_line(line) leaves when called in the current state
Run(line) == ProcessLine(State, line)

Keyword(line) == IF line = <<>> THEN "" ELSE line[1]

\* the line is a command cmd of n tokens whose tokens at the places ns are numbers
WellFormed(line, cmd, n, ns) ==
    /\ Len(line) = n
    /\ line[1] = cmd
    /\ \A k \in ns : IsFloat(line[k])

Quantity(line) == IntOf(Float(line[3]))

\* the batches of an item in an inventory, none when the item is no key
Batches(inv, item) == IF item \in DOMAIN inv THEN inv[item] ELSE <<>>

\* the units of an item available in an inventory
AvailableIn(inv, item) == SumQty(Batches(inv, item))

RECURSIVE SumTotalQty(_)
SumTotalQty(lots) ==
    IF lots = <<>> THEN 0 ELSE Head(lots).total_qty + SumTotalQty(Tail(lots))

\* the sale records of an item under a quoted price
Records(s, item, sell) ==
    IF item \in DOMAIN s
    THEN IF DictKey(sell) \in DOMAIN s[item] THEN s[item][DictKey(sell)] ELSE <<>>
    ELSE <<>>

\* the units sold at a quoted price and not yet returned
Returnable(s, item, sell) == SumTotalQty(Records(s, item, sell))

OrderLines == {line \in AllLines : WellFormed(line, "ORDER", 4, {3, 4})}

ExpireLines == {line \in AllLines : WellFormed(line, "EXPIRE", 3, {3})}

ReturnLines == {line \in AllLines : WellFormed(line, "RETURN", 4, {3, 4})}

Oversell(line) == Quantity(line) > AvailableIn(inventory, line[2])

OverExpire(line) == Quantity(line) > AvailableIn(inventory, line[2])

OverReturn(line) == Quantity(line) > Returnable(sales, line[2], Float(line[4]))

\* the reports of a state: what CHECK and PROFIT print there
Silenced(st) ==
    /\ \A line \in AllLines :
          Keyword(line) = "CHECK" => ProcessLine(st, line).out = <<>>
    /\ ProcessLine(st, <<"PROFIT">>).out = <<"Profit/Loss: NA">>

(***************************************************************************)
(* C1: an ORDER or EXPIRE of more than the item's available stock, or a    *)
(* RETURN of more than the quantity still sold at that price, leaves the   *)
(* engine invalid, whatever was processed before; and in an invalid engine *)
(* every CHECK prints nothing, every PROFIT prints exactly                 *)
(* "Profit/Loss: NA" and every line leaves the engine invalid, so that     *)
(* this is so at every later report.                                       *)
(***************************************************************************)
C1_ViolationPoisons ==
    /\ \A line \in OrderLines : Oversell(line) => Run(line).invalid
    /\ \A line \in ExpireLines : OverExpire(line) => Run(line).invalid
    /\ \A line \in ReturnLines : OverReturn(line) => Run(line).invalid
    /\ invalid =>
          /\ Silenced(State)
          /\ \A line \in AllLines : Run(line).invalid

\* a valid engine with stock, sales and profit in which an oversell, an
\* over-expire and an over-return each leave a state whose reports are silenced
C1_Witness ==
    /\ ~invalid
    /\ AvailableIn(inventory, "A") > 0
    /\ FSign(profit) # 0
    /\ \E line \in OrderLines : Oversell(line) /\ Silenced(Run(line))
    /\ \E line \in ExpireLines : OverExpire(line) /\ Silenced(Run(line))
    /\ \E line \in ReturnLines :
          /\ Returnable(sales, line[2], Float(line[4])) > 0
          /\ OverReturn(line)
          /\ Silenced(Run(line))

(***************************************************************************)
(* C2: once the invalid flag is true it is true after every further call   *)
(* of process_line.                                                        *)
(***************************************************************************)
C2_InvalidPermanent == [][invalid => invalid']_vars

\* an invalid engine that has since processed a PROFIT, and in which lines
\* of every kind can follow
C2_Witness ==
    /\ invalid
    /\ out = <<NALine>>
    /\ FSign(profit) # 0
    /\ \A line \in AllLines : Run(line).invalid

(***************************************************************************)
(* C3: in an invalid engine a line whose keyword is not CHECK or PROFIT    *)
(* changes neither inventory, discounts, sales nor profit and prints       *)
(* nothing.                                                                *)
(***************************************************************************)
C3_InvalidIgnores ==
    invalid =>
        \A line \in AllLines :
            Keyword(line) \notin Reports =>
                /\ Run(line).inventory = inventory
                /\ Run(line).discounts = discounts
                /\ Run(line).sales = sales
                /\ Run(line).profit = profit
                /\ Run(line).out = <<>>

\* an invalid engine holding stock, an active discount and sales, in which a
\* STOCK, an ORDER within the stock and a DISCOUNT_END would each have acted
C3_Witness ==
    /\ invalid
    /\ AvailableIn(inventory, "A") > 0
    /\ FSign(ActiveDiscount(discounts, "A")) # 0
    /\ Returnable(sales, "A", Float("2.00")) > 0
    /\ Run(<<"ORDER", "A", "1", "2.00">>).inventory = inventory
    /\ Run(<<"RETURN", "A", "1", "2.00">>).sales = sales
    /\ Run(<<"DISCOUNT_END", "A">>).discounts = discounts

(***************************************************************************)
(* C4: a command that turns the invalid flag from false to true leaves     *)
(* the batches of every item, every discount stack, every sale record and  *)
(* the profit as they were: no command consumes part of its quantity and   *)
(* then sets invalid.                                                      *)
(***************************************************************************)
C4_InvalidationAtomic ==
    ~invalid =>
        \A line \in AllLines :
            Run(line).invalid =>
                /\ \A item \in ItemToks :
                      Batches(Run(line).inventory, item) = Batches(inventory, item)
                /\ Run(line).discounts = discounts
                /\ Run(line).sales = sales
                /\ Run(line).profit = profit

\* a valid engine with stock, sales and profit, in which an ORDER and an
\* EXPIRE of more than the stock and a RETURN of more than was sold invalidate
C4_Witness ==
    /\ ~invalid
    /\ AvailableIn(inventory, "A") = 1
    /\ Returnable(sales, "A", Float("2.00")) = 1
    /\ FSign(profit) # 0
    /\ \E line \in OrderLines :
          Quantity(line) > 0 /\ Oversell(line) /\ Run(line).invalid
    /\ \E line \in ExpireLines :
          Quantity(line) > 0 /\ OverExpire(line) /\ Run(line).invalid
    /\ Run(<<"RETURN", "A", "2", "2.00">>).invalid

(***************************************************************************)
(* C5: in a valid state an ORDER, EXPIRE or RETURN whose quantity is zero  *)
(* leaves the inventory, the profit and the invalid flag unchanged, for    *)
(* any item and, for a RETURN, any numeric price (sold or not); for an     *)
(* ORDER the price must not be negative.                                   *)
(***************************************************************************)
ZeroLines ==
    {line \in OrderLines \cup ExpireLines \cup ReturnLines : Quantity(line) = 0}

NoOp(line) ==
    /\ Run(line).inventory = inventory
    /\ Run(line).profit = profit
    /\ Run(line).invalid = invalid

NegativePriceOrder(line) ==
    Keyword(line) = "ORDER" /\ FSign(Float(line[4])) < 0

C5_ZeroQuantityNoOp ==
    ~invalid => \A line \in ZeroLines : ~NegativePriceOrder(line) => NoOp(line)

\* C5 as claimed, for every numeric price argument
C5_ZeroQuantityAnyPrice ==
    ~invalid => \A line \in ZeroLines : NoOp(line)

\* a valid engine with stock, sales and profit where zero-quantity lines of
\* the three commands are no-ops: on a known item, on an item never seen, at
\* a price never sold and with a quantity token that truncates to zero
C5_Witness ==
    /\ ~invalid
    /\ AvailableIn(inventory, "A") > 0
    /\ FSign(profit) # 0
    /\ "B" \notin DOMAIN inventory \cup DOMAIN sales
    /\ Records(sales, "A", Float("1.00")) = <<>>
    /\ NoOp(<<"ORDER", "A", "0", "2.00">>)
    /\ NoOp(<<"EXPIRE", "A", "0.9">>)
    /\ NoOp(<<"RETURN", "A", "0", "1.00">>)
    /\ NoOp(<<"RETURN", "A", "0", "-1">>)
    /\ NoOp(<<"ORDER", "B", "0", "1.00">>)
    /\ NoOp(<<"EXPIRE", "B", "0">>)
    /\ NoOp(<<"RETURN", "B", "0", "2.00">>)

(***************************************************************************)
(* A successful RETURN: a well-formed RETURN of a positive quantity, in a  *)
(* valid state, that leaves the state valid.                               *)
(***************************************************************************)
Returns(line) ==
    /\ ~invalid
    /\ Quantity(line) > 0
    /\ ~Run(line).invalid

\* the records of the line's item and price before and after the line
Before(line) == Records(sales, line[2], Float(line[4]))

After(line) == Records(Run(line).sales, line[2], Float(line[4]))

(***************************************************************************)
(* C6: a successful RETURN takes the units from the sale records of its    *)
(* (item, price) newest record first: it reduces a record only if every    *)
(* record created after it under the same (item, price) is left with       *)
(* remaining quantity zero.                                                *)
(***************************************************************************)
C6_ReturnNewestRecordFirst ==
    \A line \in ReturnLines :
        Returns(line) =>
            /\ Len(After(line)) = Len(Before(line))
            /\ \A i \in 1..Len(Before(line)) :
                  After(line)[i].total_qty < Before(line)[i].total_qty =>
                      \A j \in (i + 1)..Len(Before(line)) :
                          After(line)[j].total_qty = 0

\* two records under one price, both with units left: a RETURN of one unit
\* takes it from the newer record, a RETURN of all reaches the older one
C6_Witness ==
    /\ ~invalid
    /\ Len(Records(sales, "A", Float("2.00"))) = 2
    /\ \A i \in 1..2 : Records(sales, "A", Float("2.00"))[i].total_qty = 1
    /\ LET line == <<"RETURN", "A", "1", "2.00">>
       IN  /\ Returns(line)
           /\ After(line)[1].total_qty = 1
           /\ After(line)[2].total_qty = 0
    /\ LET line == <<"RETURN", "A", "2", "2.00">>
       IN  /\ Returns(line)
           /\ After(line)[1].total_qty = 0
           /\ After(line)[2].total_qty = 0

(***************************************************************************)
(* C7: within one sale record a RETURN consumes the components in the      *)
(* order the ORDER drew them (oldest batch first): what is left of the     *)
(* components is a suffix of what was there, of which only the first       *)
(* component may have shrunk.                                              *)
(***************************************************************************)
ShrunkSuffix(c, d) ==
    \E k \in 0..Len(c) :
        /\ Len(d) = Len(c) - k
        /\ \A j \in 2..Len(d) : d[j] = c[k + j]
        /\ Len(d) >= 1 =>
              /\ d[1].unit_cost = c[k + 1].unit_cost
              /\ d[1].unit_sell_after_discount = c[k + 1].unit_sell_after_discount
              /\ d[1].qty > 0
              /\ d[1].qty <= c[k + 1].qty

C7_ReturnOldestComponentFirst ==
    \A line \in ReturnLines :
        Returns(line) =>
            /\ Len(After(line)) = Len(Before(line))
            /\ \A i \in 1..Len(Before(line)) :
                  ShrunkSuffix(Before(line)[i].components,
                               After(line)[i].components)

\* a record of two components drawn from batches of different cost: a RETURN
\* of one unit removes the component of the older batch and keeps the other
C7_Witness ==
    /\ ~invalid
    /\ Len(Records(sales, "A", Float("2.00"))) = 1
    /\ LET c == Records(sales, "A", Float("2.00"))[1].components
           line == <<"RETURN", "A", "1", "2.00">>
       IN  /\ Len(c) = 2
           /\ c[1].unit_cost # c[2].unit_cost
           /\ Returns(line)
           /\ After(line)[1].components = <<c[2]>>

(***************************************************************************)
(* C8: a successful RETURN changes profit by minus the sum, over the       *)
(* component slices it consumes, of taken * (the discounted unit price     *)
(* recorded at the sale - the unit cost of the batch), the slices read off *)
(* the records of its (item, price) before and after and subtracted one by *)
(* one in float arithmetic; the amount is the same under any discount      *)
(* stack at the time of the RETURN.                                        *)
(***************************************************************************)
\* the units taken from component j of the components c, of which d is left
Taken(c, d, j) ==
    LET k == Len(c) - Len(d)
    IN  IF j <= k THEN c[j].qty ELSE c[j].qty - d[j - k].qty

\* prof less the slices taken from the components c from the j-th on
RECURSIVE LessComponents(_, _, _, _)
LessComponents(c, d, j, prof) ==
    IF j > Len(c) THEN prof
    ELSE LessComponents(c, d, j + 1,
             IF Taken(c, d, j) = 0 THEN prof
             ELSE FSub(prof, FMul(FOfInt(Taken(c, d, j)),
                                  FSub(c[j].unit_sell_after_discount,
                                       c[j].unit_cost))))

\* prof less the slices taken from the records, from the i-th down to the first
RECURSIVE LessRecords(_, _, _, _)
LessRecords(before, after, i, prof) ==
    IF i = 0 THEN prof
    ELSE LessRecords(before, after, i - 1,
             LessComponents(before[i].components, after[i].components, 1, prof))

\* discount stacks a RETURN may meet
StackSamples ==
    {Empty, "A" :> <<Float("50")>>, "A" :> <<Float("10")>>,
     "A" :> <<Float("50"), Float("10")>>,
     ("A" :> <<>>) @@ ("B" :> <<Float("50")>>)}

C8_ReturnReversesRecordedProfit ==
    \A line \in ReturnLines :
        Returns(line) =>
            /\ Len(After(line)) = Len(Before(line))
            /\ Run(line).profit =
                  LessRecords(Before(line), After(line), Len(Before(line)), profit)
            /\ \A d \in StackSamples :
                  ProcessLine([State EXCEPT !.discounts = d], line).profit
                      = Run(line).profit

\* a unit sold at 2.00 under a discount of 50 is returned when that discount
\* is no longer the active one: profit falls by 1.00 less the unit cost
C8_Witness ==
    /\ ~invalid
    /\ ActiveDiscount(discounts, "A") # Float("50")
    /\ Len(Records(sales, "A", Float("2.00"))) = 1
    /\ LET lot == Records(sales, "A", Float("2.00"))[1]
           line == <<"RETURN", "A", "1", "2.00">>
       IN  /\ lot.total_qty = 1
           /\ lot.sell_price_after_discount = FOfInt(1)
           /\ lot.components[1].unit_cost = FOfInt(2)
           /\ Returns(line)
           /\ Run(line).profit = FAdd(profit, FOfInt(1))

(***************************************************************************)
(* C9: from a valid state a successful ORDER of q > 0 units followed at    *)
(* once by a RETURN of q units of the item at the same price leaves the    *)
(* engine valid and the profit as it was before the ORDER, while the       *)
(* item's available quantity stays q lower.                                *)
(***************************************************************************)
Sells(line) ==
    /\ ~invalid
    /\ Quantity(line) > 0
    /\ ~Run(line).invalid

\* the RETURN line that takes an ORDER line back
Undo(line) == <<"RETURN", line[2], line[3], line[4]>>

C9_OrderReturnRoundTrip ==
    \A line \in OrderLines :
        Sells(line) =>
            LET s2 == ProcessLine(Run(line), Undo(line))
            IN  /\ ~s2.invalid
                /\ s2.profit = profit
                /\ AvailableIn(s2.inventory, line[2])
                      = AvailableIn(inventory, line[2]) - Quantity(line)

\* a batch that cost 2.00, a batch that cost 1.00, a discount of 10 and a
\* profit of 0.0: ORDER 2 at 1.00 and the RETURN of the 2 units leave the
\* engine valid and the stock 2 lower, but a profit below zero, and PROFIT
\* prints $-0.00 where it printed $0.00 before the ORDER
C9_Witness ==
    /\ ~invalid
    /\ Len(Batches(inventory, "A")) = 2
    /\ inventory["A"][1].cost = Float("2.00")
    /\ inventory["A"][2].cost = Float("1.00")
    /\ ActiveDiscount(discounts, "A") = Float("10")
    /\ profit = FZero(FALSE)
    /\ LET line == <<"ORDER", "A", "2", "1.00">>
           s2 == ProcessLine(Run(line), Undo(line))
       IN  /\ Sells(line)
           /\ ~s2.invalid
           /\ AvailableIn(s2.inventory, "A") = 0
           /\ FSign(s2.profit) < 0
           /\ Run(<<"PROFIT">>).out = <<"Profit/Loss: $0.00">>
           /\ ProcessLine(s2, <<"PROFIT">>).out = <<"Profit/Loss: $-0.00">>

(***************************************************************************)
(* C10: sales are matched for return by the quoted price: a sale made by   *)
(* an ORDER at price p under an active discount can be returned, in whole  *)
(* or in part, by a RETURN at p; and a RETURN of a positive quantity at a  *)
(* price under which the item has no sale record (the discounted price,    *)
(* the price of another item) sets invalid.                                *)
(***************************************************************************)
C10_ReturnAtQuotedPrice ==
    /\ \A line \in OrderLines :
          (Sells(line) /\ FSign(ActiveDiscount(discounts, line[2])) # 0) =>
              \A back \in ReturnLines :
                  (/\ back[2] = line[2]
                   /\ Float(back[4]) = Float(line[4])
                   /\ Quantity(back) > 0
                   /\ Quantity(back) <= Quantity(line))
                      => ~ProcessLine(Run(line), back).invalid
    /\ \A back \in ReturnLines :
          (Quantity(back) > 0 /\ Records(sales, back[2], Float(back[4])) = <<>>)
              => Run(back).invalid

\* item B was sold at 1.00 and item A is ordered at 2.00 under a discount of
\* 50: a RETURN of A at 2.00 is then accepted, a RETURN of A at 1.00 (the
\* discounted price, and the price of B) invalidates
C10_Witness ==
    /\ ~invalid
    /\ Returnable(sales, "B", Float("1.00")) = 1
    /\ ActiveDiscount(discounts, "A") = Float("50")
    /\ LET line == <<"ORDER", "A", "1", "2.00">>
       IN  /\ Sells(line)
           /\ Records(Run(line).sales, "A", Float("2.00"))[1]
                  .sell_price_after_discount = FOfInt(1)
           /\ ~ProcessLine(Run(line), <<"RETURN", "A", "1", "2.00">>).invalid
           /\ ProcessLine(Run(line), <<"RETURN", "A", "1", "1.00">>).invalid
           /\ ~ProcessLine(Run(line), <<"RETURN", "B", "1", "1.00">>).invalid

(***************************************************************************)
(* C11: a RETURN line, whether it succeeds, has quantity zero, is          *)
(* malformed or invalidates, leaves the inventory (the batch sequence of   *)
(* every item) and the discount stacks as they were, so that a CHECK after *)
(* a RETURN that leaves the engine valid prints what it would have printed *)
(* before; the sale records of the other items and of the other prices of  *)
(* the same item are as they were.                                         *)
(***************************************************************************)
ReturnWords == {line \in AllLines : Keyword(line) = "RETURN"}

\* the (item, price) whose records a RETURN line may reduce, <<>> if none
Target(line) ==
    IF WellFormed(line, "RETURN", 4, {3, 4})
    THEN <<line[2], DictKey(Float(line[4]))>>
    ELSE <<>>

C11_ReturnLeavesStock ==
    \A line \in ReturnWords :
        /\ Run(line).inventory = inventory
        /\ Run(line).discounts = discounts
        /\ \A item \in ItemToks :
              Batches(Run(line).inventory, item) = Batches(inventory, item)
        /\ ~Run(line).invalid =>
              ProcessLine(Run(line), <<"CHECK">>).out = Run(<<"CHECK">>).out
        /\ DOMAIN Run(line).sales = DOMAIN sales
        /\ \A item \in DOMAIN sales :
              /\ DOMAIN Run(line).sales[item] = DOMAIN sales[item]
              /\ \A p \in DOMAIN sales[item] :
                    <<item, p>> # Target(line) =>
                        Run(line).sales[item][p] = sales[item][p]

\* item A sold at 2.00 and at 1.00 and none left in stock: a RETURN of the
\* unit sold at 2.00 succeeds, CHECK still reports no unit of A, and the
\* record under 1.00 is as it was
C11_Witness ==
    /\ ~invalid
    /\ Returnable(sales, "A", Float("2.00")) = 1
    /\ Returnable(sales, "A", Float("1.00")) = 1
    /\ AvailableIn(inventory, "A") = 0
    /\ LET line == <<"RETURN", "A", "1", "2.00">>
       IN  /\ Returns(line)
           /\ Returnable(Run(line).sales, "A", Float("2.00")) = 0
           /\ Returnable(Run(line).sales, "A", Float("1.00")) = 1
           /\ Run(line).inventory = inventory
           /\ ProcessLine(Run(line), <<"CHECK">>).out = <<"A: 0">>

(***************************************************************************)
(* Vocabulary of the consumption of batches: the batches b of an item      *)
(* before a command and the batches a after it.                            *)
(***************************************************************************)
\* a is b less units taken from the front: whole batches first, then part
\* of the next one, the batches behind as they were
FrontConsumed(b, a) ==
    \E k \in 0..Len(b) :
        /\ Len(a) = Len(b) - k
        /\ \A j \in 2..Len(a) : a[j] = b[k + j]
        /\ Len(a) >= 1 =>
              /\ a[1].cost = b[k + 1].cost
              /\ a[1].qty > 0
              /\ a[1].qty <= b[k + 1].qty

\* the slices taken from the batches b from the j-th on, one per batch
\* touched, as components sold at a unit price
RECURSIVE Slices(_, _, _, _)
Slices(b, a, j, price) ==
    IF j > Len(b) THEN <<>>
    ELSE (IF Taken(b, a, j) = 0 THEN <<>>
          ELSE <<SaleComponent(Taken(b, a, j), b[j].cost, price)>>)
             \o Slices(b, a, j + 1, price)

\* prof plus taken * (unit price - unit cost), slice after slice
RECURSIVE PlusSlices(_, _)
PlusSlices(slices, prof) ==
    IF slices = <<>> THEN prof
    ELSE PlusSlices(Tail(slices),
             FAdd(prof, FMul(FOfInt(Head(slices).qty),
                             FSub(Head(slices).unit_sell_after_discount,
                                  Head(slices).unit_cost))))

\* the top of an item's discount stack, 0 when there is none
Top(item) ==
    IF item \in DOMAIN discounts
    THEN IF discounts[item] = <<>> THEN FOfInt(0)
         ELSE discounts[item][Len(discounts[item])]
    ELSE FOfInt(0)

\* p * (1 - d / 100)
PriceAfter(p, d) == FMul(p, FSub(FOfInt(1), FDivInt(d, 100)))

(***************************************************************************)
(* C12: in a valid state an ORDER of q units at a price p >= 0 with        *)
(* 0 < q <= the item's available quantity is accepted; it takes the q      *)
(* oldest units (whole batches from the front, then part of the next, the  *)
(* exhausted batches removed, the batches behind untouched); profit grows  *)
(* by taken * (p * (1 - d/100) - unit cost) for each slice, added slice    *)
(* after slice in float arithmetic, d the top of the item's discount       *)
(* stack; and one record with remaining quantity q and one component per   *)
(* slice is appended behind the records under (item, p).                   *)
(***************************************************************************)
Covered(line) ==
    /\ ~invalid
    /\ Quantity(line) > 0
    /\ FSign(Float(line[4])) >= 0
    /\ Quantity(line) <= AvailableIn(inventory, line[2])

\* the effect of an ORDER line that finds the batches b and leaves a
OrderEffect(line, b, a, price) ==
    /\ ~Run(line).invalid
    /\ FrontConsumed(b, a)
    /\ SumQty(a) = SumQty(b) - Quantity(line)
    /\ Run(line).profit = PlusSlices(Slices(b, a, 1, price), profit)
    /\ After(line) =
          Append(Before(line),
                 [sell_price_after_discount |-> price,
                  total_qty |-> Quantity(line),
                  components |-> Slices(b, a, 1, price)])

C12_OrderConsumesOldest ==
    \A line \in OrderLines :
        Covered(line) =>
            OrderEffect(line, Batches(inventory, line[2]),
                        Batches(Run(line).inventory, line[2]),
                        PriceAfter(Float(line[4]), Top(line[2])))

\* two batches of one unit, of cost 2.00 then 1.00, under a discount of 50:
\* ORDER A 2 2.00 takes all the stock and records two components; ORDER A 1
\* 2.00 takes the older batch and leaves the newer one
C12_Witness ==
    /\ ~invalid
    /\ Len(Batches(inventory, "A")) = 2
    /\ inventory["A"][1].cost = Float("2.00")
    /\ inventory["A"][2].cost = Float("1.00")
    /\ Top("A") = Float("50")
    /\ LET line == <<"ORDER", "A", "2", "2.00">>
       IN  /\ Covered(line)
           /\ Batches(Run(line).inventory, "A") = <<>>
           /\ Len(After(line)[Len(After(line))].components) = 2
           /\ Run(line).profit = FAdd(profit, FOfInt(-1))
    /\ LET line == <<"ORDER", "A", "1", "2.00">>
       IN  /\ Covered(line)
           /\ Batches(Run(line).inventory, "A") = <<inventory["A"][2]>>
           /\ Run(line).profit = FAdd(profit, FOfInt(-1))

(***************************************************************************)
(* C13: in a valid state an EXPIRE of q units with 0 < q <= the item's     *)
(* available quantity is accepted; it takes the q oldest units front to    *)
(* back and leaves the batches an ORDER of q units would leave; profit     *)
(* falls by taken * unit cost for each slice, subtracted slice after slice *)
(* in float arithmetic; and the sales are as they were, so that no RETURN  *)
(* finds more to take back than before.                                    *)
(***************************************************************************)
ExpireCovered(line) ==
    /\ ~invalid
    /\ Quantity(line) > 0
    /\ Quantity(line) <= AvailableIn(inventory, line[2])

\* prof less taken * unit cost, slice after slice
RECURSIVE LessCosts(_, _)
LessCosts(slices, prof) ==
    IF slices = <<>> THEN prof
    ELSE LessCosts(Tail(slices),
             FSub(prof, FMul(FOfInt(Head(slices).qty), Head(slices).unit_cost)))

\* the ORDER line that sells what an EXPIRE line writes off
SoldInstead(line) == <<"ORDER", line[2], line[3], "2.00">>

\* the effect of an EXPIRE line that finds the batches b and leaves a
ExpireEffect(line, b, a) ==
    /\ ~Run(line).invalid
    /\ FrontConsumed(b, a)
    /\ SumQty(a) = SumQty(b) - Quantity(line)
    /\ a = Batches(Run(SoldInstead(line)).inventory, line[2])
    /\ Run(line).profit = LessCosts(Slices(b, a, 1, FOfInt(0)), profit)
    /\ Run(line).sales = sales
    /\ \A back \in ReturnLines :
          ProcessLine(Run(line), back).invalid = Run(back).invalid

C13_ExpireWritesOff ==
    \A line \in ExpireLines :
        ExpireCovered(line) =>
            ExpireEffect(line, Batches(inventory, line[2]),
                         Batches(Run(line).inventory, line[2]))

\* two batches of one unit, of cost 2.00 then 1.00: EXPIRE A 1 removes the
\* older one and costs 2.00, EXPIRE A 2 removes both and costs 3.00, and a
\* RETURN of a unit of A is then refused as it was before
C13_Witness ==
    /\ ~invalid
    /\ Len(Batches(inventory, "A")) = 2
    /\ inventory["A"][1].cost = Float("2.00")
    /\ inventory["A"][2].cost = Float("1.00")
    /\ LET line == <<"EXPIRE", "A", "1">>
       IN  /\ ExpireCovered(line)
           /\ Batches(Run(line).inventory, "A") = <<inventory["A"][2]>>
           /\ Run(line).profit = FSub(profit, FOfInt(2))
    /\ LET line == <<"EXPIRE", "A", "2">>
       IN  /\ ExpireCovered(line)
           /\ Batches(Run(line).inventory, "A") = <<>>
           /\ Run(line).profit = FSub(profit, FOfInt(3))
           /\ Run(line).sales = sales
           /\ ProcessLine(Run(line), <<"RETURN", "A", "1", "2.00">>).invalid

(***************************************************************************)
(* C14: the discount an ORDER applies to an item is the percentage pushed  *)
(* last for that item and not yet popped, 0 when none is left.  Read off   *)
(* the unit price an ORDER of one unit at 2.00 records: after a DISCOUNT   *)
(* of pct it is 2.00 * (1 - pct/100) whatever lies below; a DISCOUNT_END   *)
(* after a DISCOUNT gives the price of before; of two pushes the second is *)
(* applied, the first again after one DISCOUNT_END, the price of before    *)
(* after two; a DISCOUNT_END uncovers the entry below the top; and the     *)
(* commands on another item change nothing.                                *)
(***************************************************************************)
Probe == <<"ORDER", "A", "1", "2.00">>

\* the unit price an ORDER of one unit of A at 2.00 records in a state
Quoted(st) ==
    LET lots == Records(ProcessLine(st, Probe).sales, "A", Float("2.00"))
    IN  lots[Len(lots)].sell_price_after_discount

Pushes == {line \in AllLines : WellFormed(line, "DISCOUNT", 3, {3}) /\ line[2] = "A"}

Pop == <<"DISCOUNT_END", "A">>

Aside == {<<"DISCOUNT", "B", "50">>, <<"DISCOUNT_END", "B">>}

\* the entry below the top of an item's discount stack, 0 when there is none
Below(item) ==
    IF item \in DOMAIN discounts
    THEN IF Len(discounts[item]) < 2 THEN FOfInt(0)
         ELSE discounts[item][Len(discounts[item]) - 1]
    ELSE FOfInt(0)

\* a push on a state, and a push followed by a pop
Pushed(st, push) == ProcessLine(st, push)

Popped(st) == ProcessLine(st, Pop)

C14_DiscountStackLifo ==
    (~invalid /\ AvailableIn(inventory, "A") >= 1) =>
        /\ Quoted(State) = PriceAfter(Float("2.00"), Top("A"))
        /\ Quoted(Popped(State)) = PriceAfter(Float("2.00"), Below("A"))
        /\ \A line \in Aside : Quoted(Run(line)) = Quoted(State)
        /\ \A push \in Pushes :
              /\ Quoted(Pushed(State, push)) = PriceAfter(Float("2.00"), Float(push[3]))
              /\ Quoted(Popped(Pushed(State, push))) = Quoted(State)
              /\ \A next \in Pushes :
                    /\ Quoted(Pushed(Pushed(State, push), next))
                          = PriceAfter(Float("2.00"), Float(next[3]))
                    /\ Quoted(Popped(Pushed(Pushed(State, push), next)))
                          = PriceAfter(Float("2.00"), Float(push[3]))
                    /\ Quoted(Popped(Popped(Pushed(Pushed(State, push), next))))
                          = Quoted(State)

\* the stack of A holds 50 then 10 and A is in stock: an ORDER at 2.00
\* records the unit price under 10 alone (not 0.90, the two combined), 1.00
\* after one DISCOUNT_END, 2.00 after two and after three
C14_Witness ==
    /\ ~invalid
    /\ AvailableIn(inventory, "A") >= 1
    /\ "A" \in DOMAIN discounts
    /\ discounts["A"] = <<Float("50"), Float("10")>>
    /\ Quoted(State) = PriceAfter(Float("2.00"), Float("10"))
    /\ Quoted(State) # PriceAfter(FOfInt(1), Float("10"))
    /\ Quoted(Popped(State)) = FOfInt(1)
    /\ Quoted(Popped(Popped(State))) = FOfInt(2)
    /\ Quoted(Popped(Popped(Popped(State)))) = FOfInt(2)

(***************************************************************************)
(* C15: a DISCOUNT_END for an item whose discount stack is empty, or that  *)
(* was never mentioned, is a no-op: in a valid state it leaves the engine  *)
(* valid, the profit, the inventory and the sales as they were and the     *)
(* price a later ORDER records as it would have been, and the CHECK and    *)
(* the PROFIT that follow print what they would have printed without it.   *)
(***************************************************************************)
\* the DISCOUNT_END lines whose item has no entry on its stack
EmptyPops ==
    {line \in AllLines :
        /\ WellFormed(line, "DISCOUNT_END", 2, {})
        /\ (line[2] \in DOMAIN discounts => discounts[line[2]] = <<>>)}

\* what an empty pop leaves of the engine proper
EmptyPopKeeps(line) ==
    /\ ~Run(line).invalid
    /\ Run(line).profit = profit
    /\ Run(line).inventory = inventory
    /\ Run(line).sales = sales
    /\ Run(line).out = <<>>
    /\ \A order \in OrderLines :
          /\ ProcessLine(Run(line), order).invalid = Run(order).invalid
          /\ ProcessLine(Run(line), order).profit = Run(order).profit
          /\ ProcessLine(Run(line), order).sales = Run(order).sales

\* the reports after an empty pop
EmptyPopUnseen(line) ==
    /\ ProcessLine(Run(line), <<"PROFIT">>).out = Run(<<"PROFIT">>).out
    /\ ProcessLine(Run(line), <<"CHECK">>).out = Run(<<"CHECK">>).out

C15_EmptyPopNoOp ==
    ~invalid =>
        \A line \in EmptyPops : EmptyPopKeeps(line) /\ EmptyPopUnseen(line)

\* A is in stock and B was never mentioned: DISCOUNT_END B leaves the engine
\* valid and the ledgers' contents, the profit and the orders as they were,
\* but the CHECK that follows prints a line for B that it would not have
C15_Witness ==
    /\ ~invalid
    /\ AvailableIn(inventory, "A") = 1
    /\ "B" \notin DOMAIN inventory \cup DOMAIN discounts \cup DOMAIN sales
    /\ EmptyPopKeeps(<<"DISCOUNT_END", "B">>)
    /\ Run(<<"CHECK">>).out = <<"A: 1">>
    /\ ProcessLine(Run(<<"DISCOUNT_END", "B">>), <<"CHECK">>).out
          = <<"A: 1", "B: 0">>

(***************************************************************************)
(* C16: after a run made of STOCK commands alone, all of them accepted,    *)
(* CHECK prints one line for each item of which units were stocked, and    *)
(* the quantity on it is the sum of the quantities the STOCK commands of   *)
(* the item stocked (each truncated to an integer); an item of which only  *)
(* zero quantities were stocked has no line.                               *)
(***************************************************************************)
StockedItems == {item \in ItemToks : stocked[item] > 0}

C16_CheckReportsStocked ==
    ~invalid =>
        /\ Len(Run(<<"CHECK">>).out) = Cardinality(StockedItems)
        /\ \A item \in StockedItems :
              \E k \in 1..Len(Run(<<"CHECK">>).out) :
                  Run(<<"CHECK">>).out[k] = CheckLine(item, stocked[item])

\* A was stocked twice, 1 and 2 units, and B once, 1 unit: CHECK prints the sums
C16_Witness ==
    /\ ~invalid
    /\ Len(Batches(inventory, "A")) = 2
    /\ Len(Batches(inventory, "B")) = 1
    /\ stocked["A"] = 3
    /\ stocked["B"] = 1
    /\ Run(<<"CHECK">>).out = <<"A: 3", "B: 1">>

(***************************************************************************)
(* C17: in a valid state CHECK prints exactly one line for each item that  *)
(* is a key of the inventory, the discounts or the sales, the items in     *)
(* ascending order of their names, each line with the sum of the item's    *)
(* batch quantities: 0 for an item that has only discounts or only sales   *)
(* or whose batches were all consumed.                                     *)
(***************************************************************************)
Known == DOMAIN inventory \cup DOMAIN discounts \cup DOMAIN sales

\* the code points of the item names, which are one character long
CodePoint == ("A" :> 65) @@ ("B" :> 66)

Ascending(order) ==
    \A k \in 1..(Len(order) - 1) : CodePoint[order[k]] < CodePoint[order[k + 1]]

\* the lines of a CHECK that reports the items in an order
Report(order) ==
    [k \in 1..Len(order) |-> CheckLine(order[k], AvailableIn(inventory, order[k]))]

C17_CheckReportsUnion ==
    ~invalid =>
        \E order \in [1..Cardinality(Known) -> Known] :
            /\ Ascending(order)
            /\ Run(<<"CHECK">>).out = Report(order)

\* B has a discount only and the one batch of A was consumed: CHECK prints
\* the line of A, then the line of B, both with quantity 0
C17_Witness ==
    /\ ~invalid
    /\ DOMAIN discounts = {"B"}
    /\ discounts["B"] # <<>>
    /\ DOMAIN inventory = {"A"}
    /\ inventory["A"] = <<>>
    /\ stocked["A"] = 1
    /\ Run(<<"CHECK">>).out = <<"A: 0", "B: 0">>

(***************************************************************************)
(* C18: a CHECK or a PROFIT of one token, in a valid or an invalid state,  *)
(* leaves the invalid flag, the profit, the batches of every item, the     *)
(* discount stacks, the sale records and the set of items known to the     *)
(* ledgers as they were, and every line processed after it prints the same *)
(* lines and leaves the same flag and profit as without it; PROFIT prints  *)
(* exactly one line; and a report repeated at once prints the same lines.  *)
(***************************************************************************)
ReportLines == {<<"CHECK">>, <<"PROFIT">>}

\* the items that are a key of one of the three dicts of a state
KnownIn(st) == DOMAIN st.inventory \cup DOMAIN st.discounts \cup DOMAIN st.sales

\* the state a report leaves holds what the current state holds
SameLedgers(st) ==
    /\ st.invalid = invalid
    /\ st.profit = profit
    /\ st.discounts = discounts
    /\ st.sales = sales
    /\ KnownIn(st) = Known
    /\ \A item \in ItemToks : Batches(st.inventory, item) = Batches(inventory, item)

\* a line does after a report what it does without it
SameLater(st, line) ==
    /\ ProcessLine(st, line).out = Run(line).out
    /\ ProcessLine(st, line).invalid = Run(line).invalid
    /\ ProcessLine(st, line).profit = Run(line).profit

C18_ReportsReadOnly ==
    /\ Len(Run(<<"PROFIT">>).out) = 1
    /\ \A report \in ReportLines :
          /\ SameLedgers(Run(report))
          /\ ProcessLine(Run(report), report).out = Run(report).out
          /\ \A line \in AllLines : SameLater(Run(report), line)

\* A is in stock, B has a discount only and the profit is not zero: CHECK
\* prints both items and PROFIT the profit, CHECK leaves an empty batch
\* sequence under B in the inventory, and nothing that follows can tell
C18_Witness ==
    /\ ~invalid
    /\ FSign(profit) # 0
    /\ AvailableIn(inventory, "A") = 1
    /\ "B" \in DOMAIN discounts
    /\ "B" \notin DOMAIN inventory
    /\ Run(<<"CHECK">>).out = <<"A: 1", "B: 0">>
    /\ Run(<<"CHECK">>).inventory # inventory
    /\ SameLedgers(Run(<<"CHECK">>))
    /\ Run(<<"PROFIT">>).out = <<ProfitLine(profit)>>
    /\ SameLedgers(Run(<<"PROFIT">>))

(***************************************************************************)
(* C19: in a valid state a line that is neither blank nor a comment and    *)
(* has an unknown keyword, or a number of tokens other than the arity of   *)
(* its command, or a token that float() rejects where a quantity, a cost,  *)
(* a price or a percentage is read, sets invalid and prints nothing.       *)
(***************************************************************************)
\* the number of tokens of each command
Arity ==
    [cmd \in Commands |->
        CASE cmd \in {"STOCK", "ORDER", "RETURN"} -> 4
          [] cmd \in {"EXPIRE", "DISCOUNT"} -> 3
          [] cmd = "DISCOUNT_END" -> 2
          [] OTHER -> 1]

\* a command with arguments to spare
Tokens(cmd) == <<cmd, "A", "1", "2.00", "1", "A">>

WrongArity ==
    {SubSeq(Tokens(cmd), 1, n) : cmd \in Commands, n \in 1..6}
        \ {SubSeq(Tokens(cmd), 1, Arity[cmd]) : cmd \in Commands}

UnknownKeyword ==
    {<<"SELL", "A", "1", "2.00">>, <<"SELL">>, <<"stock", "A", "1", "2.00">>,
     <<"Check">>, <<"profit">>, <<"STOCKS", "A", "1", "2.00">>,
     <<"DISCOUNT_START", "A", "10">>, <<"A">>, <<"1">>}

\* tokens float() raises ValueError on
Unparsable == {"x", "1,5", "$2", "1.2.3", "0x10", "--1", "1/2"}

NotNumeric ==
    UNION {{<<"STOCK", "A", t, "1.00">>, <<"STOCK", "A", "1", t>>,
            <<"STOCK", "A", "0", t>>, <<"STOCK", "A", t, t>>,
            <<"ORDER", "A", t, "2.00">>, <<"ORDER", "A", "1", t>>,
            <<"ORDER", "A", "0", t>>, <<"EXPIRE", "A", t>>,
            <<"RETURN", "A", t, "2.00">>, <<"RETURN", "A", "1", t>>,
            <<"RETURN", "A", "0", t>>, <<"DISCOUNT", "A", t>>,
            <<"DISCOUNT", "B", t>>} : t \in Unparsable}

Malformed == WrongArity \cup UnknownKeyword \cup NotNumeric

C19_MalformedInvalidates ==
    ~invalid =>
        \A line \in Malformed : Run(line).invalid /\ Run(line).out = <<>>

\* a valid engine with stock and profit, where CHECK and PROFIT print and
\* every command on A could act: a CHECK of two tokens, an unknown keyword,
\* an ORDER of three tokens, a price and a percentage that are no numbers
\* each set invalid and print nothing
C19_Witness ==
    /\ ~invalid
    /\ AvailableIn(inventory, "A") = 1
    /\ Returnable(sales, "A", Float("2.00")) = 1
    /\ Run(<<"CHECK">>).out = <<"A: 1">>
    /\ ~Run(<<"ORDER", "A", "1", "2.00">>).invalid
    /\ \A line \in {<<"CHECK", "A">>, <<"PROFIT", "A">>, <<"SELL", "A", "1", "2.00">>,
                     <<"ORDER", "A", "1">>, <<"ORDER", "A", "1", "x">>,
                     <<"RETURN", "A", "0", "x">>, <<"DISCOUNT", "A", "x">>,
                     <<"DISCOUNT_END">>} :
          /\ line \in Malformed
          /\ Run(line).invalid
          /\ Run(line).out = <<>>

(***************************************************************************)
(* C20: in a valid state a STOCK is accepted if and only if its quantity   *)
(* (the token's value truncated to an integer) is >= 0 and its cost > 0;   *)
(* an ORDER with a quantity < 0 or a price < 0, and an EXPIRE or a RETURN  *)
(* with a quantity < 0, leave the engine invalid, whatever is in stock     *)
(* and whatever was sold.                                                  *)
(***************************************************************************)
QuantityToks == {"-1", "-1.5", "-0.5", "-0", "0", "0.9", "1", "1.5", "2"}

AmountToks == {"-1", "-0.5", "-0", "0", "0.9", "1.00", "2.00"}

StockArgs == {<<"STOCK", i, q, c>> : i \in ItemToks, q \in QuantityToks, c \in AmountToks}

OrderArgs == {<<"ORDER", i, q, p>> : i \in ItemToks, q \in QuantityToks, p \in AmountToks}

ExpireArgs == {<<"EXPIRE", i, q>> : i \in ItemToks, q \in QuantityToks}

ReturnArgs == {<<"RETURN", i, q, p>> : i \in ItemToks, q \in QuantityToks, p \in AmountToks}

C20_IllegalArguments ==
    ~invalid =>
        /\ \A line \in StockArgs :
              ~Run(line).invalid
                  <=> (Quantity(line) >= 0 /\ FSign(Float(line[4])) > 0)
        /\ \A line \in OrderArgs :
              (Quantity(line) < 0 \/ FSign(Float(line[4])) < 0) => Run(line).invalid
        /\ \A line \in ExpireArgs \cup ReturnArgs :
              Quantity(line) < 0 => Run(line).invalid

\* a valid engine with a unit of A in stock and a unit sold at 2.00, where an
\* ORDER, an EXPIRE and a RETURN of one unit are accepted: negative
\* quantities, a cost of zero and a negative price are rejected, a quantity
\* of -0.5, which truncates to 0, and a price of -0 are not
C20_Witness ==
    /\ ~invalid
    /\ AvailableIn(inventory, "A") = 1
    /\ Returnable(sales, "A", Float("2.00")) = 1
    /\ ~Run(<<"ORDER", "A", "1", "2.00">>).invalid
    /\ ~Run(<<"EXPIRE", "A", "1">>).invalid
    /\ ~Run(<<"RETURN", "A", "1", "2.00">>).invalid
    /\ ~Run(<<"STOCK", "A", "1", "0.9">>).invalid
    /\ ~Run(<<"STOCK", "A", "-0.5", "1.00">>).invalid
    /\ ~Run(<<"ORDER", "A", "1", "-0">>).invalid
    /\ \A line \in {<<"STOCK", "A", "-1", "1.00">>, <<"STOCK", "A", "1", "0">>,
                     <<"STOCK", "A", "1", "-0">>, <<"STOCK", "A", "0", "-1">>,
                     <<"ORDER", "A", "-1", "2.00">>, <<"ORDER", "A", "1", "-1">>,
                     <<"ORDER", "A", "-1.5", "-0.5">>, <<"EXPIRE", "A", "-1">>,
                     <<"RETURN", "A", "-1", "2.00">>} :
          Run(line).invalid

(***************************************************************************)
(* C21: a DISCOUNT or a DISCOUNT_END for one item leaves the discount      *)
(* stack of every other item as it was, and with it the unit price a later *)
(* ORDER of the other item records.                                        *)
(***************************************************************************)
DiscountWords ==
    {<<"DISCOUNT", i, d>> : i \in ItemToks, d \in {"50", "10", "x"}}
        \cup {<<"DISCOUNT_END", i>> : i \in ItemToks}

\* the discount stack of an item, empty when the item is no key
StackOf(disc, item) == IF item \in DOMAIN disc THEN disc[item] ELSE <<>>

\* the unit price an ORDER of one unit of an item at 2.00 records in a state
QuotedFor(st, item) ==
    LET lots == Records(ProcessLine(st, <<"ORDER", item, "1", "2.00">>).sales,
                        item, Float("2.00"))
    IN  lots[Len(lots)].sell_price_after_discount

C21_DiscountsPerItem ==
    \A line \in DiscountWords :
        \A other \in ItemToks \ {line[2]} :
            /\ StackOf(Run(line).discounts, other) = StackOf(discounts, other)
            /\ (other \in DOMAIN Run(line).discounts) = (other \in DOMAIN discounts)
            /\ (~Run(line).invalid /\ AvailableIn(inventory, other) >= 1) =>
                  /\ QuotedFor(Run(line), other) = QuotedFor(State, other)
                  /\ QuotedFor(Run(line), other)
                        = PriceAfter(Float("2.00"), Top(other))

\* B is in stock under a discount of 50 and A has none: after DISCOUNT A 10,
\* and after DISCOUNT_END A, an ORDER of B at 2.00 still records 1.00, while
\* an ORDER of A records the price under the discount of 10
C21_Witness ==
    /\ ~invalid
    /\ AvailableIn(inventory, "B") = 1
    /\ AvailableIn(inventory, "A") = 1
    /\ StackOf(discounts, "B") = <<Float("50")>>
    /\ StackOf(discounts, "A") = <<>>
    /\ QuotedFor(State, "B") = FOfInt(1)
    /\ QuotedFor(Run(<<"DISCOUNT", "A", "10">>), "B") = FOfInt(1)
    /\ QuotedFor(Run(<<"DISCOUNT", "A", "10">>), "A")
          = PriceAfter(Float("2.00"), Float("10"))
    /\ QuotedFor(Run(<<"DISCOUNT_END", "A">>), "B") = FOfInt(1)
    /\ StackOf(Run(<<"DISCOUNT_END", "B">>).discounts, "A") = <<>>

(***************************************************************************)
(* C22: the official scenario, read whole and in its order, leaves the     *)
(* engine valid; its RETURN takes 5 units back from the last ORDER, sold   *)
(* under the discount of 10 at 1.80 a unit; its CHECK prints "Apple: 5"    *)
(* and "Peer: 20" and its PROFIT prints "Profit/Loss: $74.00".             *)
(***************************************************************************)
\* the first n lines of the scenario were read, none left out
ReadUpTo(n) == read = [k \in 1..n |-> k]

\* the sale records of Apple at 2.00
AppleLots == Records(sales, "Apple", Float("2.00"))

C22_OfficialScenario ==
    /\ \A n \in 0..Len(Scenario) : ReadUpTo(n) => ~invalid
    /\ ReadUpTo(9) =>
          /\ [k \in 1..4 |-> AppleLots[k].total_qty] = <<50, 20, 10, 10>>
          /\ AvailableIn(inventory, "Apple") = 10
    /\ ReadUpTo(10) =>
          /\ [k \in 1..4 |-> AppleLots[k].total_qty] = <<50, 20, 10, 5>>
          /\ AppleLots[4].sell_price_after_discount
                = PriceAfter(Float("2.00"), Float("10"))
          /\ Cents(AppleLots[4].sell_price_after_discount) = 180
          /\ AvailableIn(inventory, "Apple") = 10
    /\ ReadUpTo(12) => out = <<"Apple: 5", "Peer: 20">>
    /\ ReadUpTo(13) => out = <<"Profit/Loss: $74.00">>

\* the scenario was read to its end
C22_Witness ==
    /\ ReadUpTo(Len(Scenario))
    /\ ~invalid
    /\ out = <<"Profit/Loss: $74.00">>
    /\ AvailableIn(inventory, "Apple") = 5
    /\ AvailableIn(inventory, "Peer") = 20
    /\ discounts["Apple"] = <<Float("10")>>
    /\ Returnable(sales, "Apple", Float("2.00")) = 85

(***************************************************************************)
(* C23: run_file resets the engine before it reads: whatever the run       *)
(* before left, the run begins with empty inventory, discounts and sales,  *)
(* profit 0 and the flag cleared, and the reports of its lines are those   *)
(* of the same lines read by an engine just constructed.                   *)
(***************************************************************************)
\* the engine as constructed, before any line
Constructed ==
    [inventory |-> Empty, discounts |-> Empty, sales |-> Empty,
     profit |-> FZero(FALSE), invalid |-> FALSE, out |-> <<>>,
     stocked |-> [i \in ItemNames |-> 0], sold |-> [i \in ItemNames |-> 0],
     expired |-> [i \in ItemNames |-> 0], returned |-> [i \in ItemNames |-> 0],
     written_off |-> FZero(FALSE), read |-> <<>>, raised |-> FALSE]

\* the lines printed by a CHECK and by a PROFIT that follow a line
ReportsAfter(st, line) ==
    <<ProcessLine(ProcessLine(st, line), <<"CHECK">>).out,
      ProcessLine(ProcessLine(st, line), <<"PROFIT">>).out>>

C23_RunFileResets ==
    /\ RunFile(State).inventory = Empty
    /\ RunFile(State).discounts = Empty
    /\ RunFile(State).sales = Empty
    /\ RunFile(State).profit = FZero(FALSE)
    /\ ~RunFile(State).invalid
    /\ \A line \in ItemLines :
          ReportsAfter(RunFile(State), line) = ReportsAfter(Constructed, line)
    /\ RunFileFails(State).invalid
    /\ ProcessLine(RunFileFails(State), <<"PROFIT">>).out = <<NALine>>

\* a run left stock, a sale, a discount, a profit and the flag set: the next
\* run reports no item and a profit of 0.00, and stocks and reports as new
C23_Witness ==
    /\ invalid
    /\ AvailableIn(inventory, "B") = 1
    /\ Returnable(sales, "A", Float("2.00")) = 1
    /\ StackOf(discounts, "A") = <<Float("50")>>
    /\ FSign(profit) > 0
    /\ ProcessLine(State, <<"PROFIT">>).out = <<NALine>>
    /\ ProcessLine(RunFile(State), <<"PROFIT">>).out = <<"Profit/Loss: $0.00">>
    /\ ReportsAfter(RunFile(State), <<"STOCK", "A", "1", "1.00">>)
          = <<<<"A: 1">>, <<"Profit/Loss: $0.00">>>>

(***************************************************************************)
(* C24: in every reachable state the total_qty of every sale record is the *)
(* sum of the quantities of its components, and a RETURN that takes k      *)
(* units from a record finds k units in its components.                    *)
(***************************************************************************)
\* every sale record held, of every item and price
SaleRecords ==
    UNION {UNION {{sales[i][p][k] : k \in 1..Len(sales[i][p])} :
                     p \in DOMAIN sales[i]} : i \in DOMAIN sales}

C24_RecordSumsComponents ==
    \A lot \in SaleRecords :
        /\ lot.total_qty = SumQty(lot.components)
        /\ \A k \in 1..lot.total_qty :
              LET r == ReturnComponents(lot.components, k, profit)
              IN  /\ r.lot_remaining = 0
                  /\ SumQty(r.components) = lot.total_qty - k

\* a record of two units from batches bought at 1.00 and at 2.00: the RETURN
\* of one unit leaves one unit and the component of the newer batch
C24_Witness ==
    /\ ~invalid
    /\ \E lot \in SaleRecords :
          /\ lot.total_qty = 2
          /\ Len(lot.components) = 2
          /\ lot.components[1].unit_cost = Float("1.00")
    /\ LET lots == Records(Run(<<"RETURN", "A", "1", "2.00">>).sales,
                            "A", Float("2.00"))
       IN  /\ Len(lots) = 1
           /\ lots[1].total_qty = 1
           /\ Len(lots[1].components) = 1
           /\ lots[1].components[1].qty = 1
           /\ lots[1].components[1].unit_cost = Float("2.00")

(***************************************************************************)
(* C25: in every reachable state no batch quantity, no component quantity  *)
(* and no sale record's total_qty is negative, so that under every price   *)
(* the sum of max(0, total_qty) a RETURN compares with is the plain sum of *)
(* the total_qty of the records.                                           *)
(***************************************************************************)
C25_NothingNegative ==
    /\ \A item \in DOMAIN inventory :
          \A k \in 1..Len(inventory[item]) : inventory[item][k].qty > 0
    /\ \A lot \in SaleRecords :
          /\ lot.total_qty >= 0
          /\ \A k \in 1..Len(lot.components) : lot.components[k].qty > 0
    /\ \A item \in DOMAIN sales :
          \A sell \in DOMAIN sales[item] :
              AvailableToReturn(sales[item][sell])
                  = SumTotalQty(sales[item][sell])

\* two records under one price, the newer one returned in full: a RETURN of
\* one unit passes it by and empties the older one, a RETURN of two is refused
C25_Witness ==
    /\ ~invalid
    /\ LET lots == Records(sales, "A", Float("2.00"))
       IN  /\ Len(lots) = 2
           /\ lots[1].total_qty = 1
           /\ lots[2].total_qty = 0
           /\ lots[2].components = <<>>
           /\ AvailableToReturn(lots) = 1
    /\ Run(<<"RETURN", "A", "1", "2.00">>).sales["A"][Float("2.00")][1].total_qty = 0
    /\ Run(<<"RETURN", "A", "2", "2.00">>).invalid

(***************************************************************************)
(* C26: in a valid state a well-formed DISCOUNT of any percentage, be it   *)
(* negative, zero or above 100, leaves the engine valid, pushes the value  *)
(* on the stack of the item and changes neither profit, inventory nor      *)
(* sales; a later ORDER applies it as given, so that a percentage above    *)
(* 100 gives a negative unit price, and the ORDER is accepted.             *)
(***************************************************************************)
\* percentages, and the cents that 2.00 comes to under each
CentsOfTwo ==
    ("-10" :> 220) @@ ("-1" :> 202) @@ ("-0" :> 200) @@ ("0" :> 200) @@
    ("1.5" :> 197) @@ ("10" :> 180) @@ ("50" :> 100) @@ ("100" :> 0) @@
    ("150" :> 100)

Percents == DOMAIN CentsOfTwo

\* the record an ORDER of one unit at 2.00 appends in a state
Sold(st, item) ==
    LET lots == Records(ProcessLine(st, <<"ORDER", item, "1", "2.00">>).sales,
                        item, Float("2.00"))
    IN  lots[Len(lots)]

C26_AnyPercentage ==
    ~invalid =>
        \A item \in ItemToks : \A pct \in Percents :
            LET s == Run(<<"DISCOUNT", item, pct>>)
                t == ProcessLine(s, <<"ORDER", item, "1", "2.00">>)
            IN  /\ ~s.invalid
                /\ s.discounts[item]
                      = Append(StackOf(discounts, item), Float(pct))
                /\ \A other \in DOMAIN discounts \ {item} :
                      s.discounts[other] = discounts[other]
                /\ s.profit = profit
                /\ s.inventory = inventory
                /\ s.sales = sales
                /\ s.out = <<>>
                /\ AvailableIn(inventory, item) >= 1 =>
                      /\ ~t.invalid
                      /\ Sold(s, item).sell_price_after_discount
                            = FMul(Float("2.00"),
                                   FSub(FOfInt(1), FDivInt(Float(pct), 100)))
                      /\ Cents(Sold(s, item).sell_price_after_discount)
                            = CentsOfTwo[pct]
                      /\ Sold(s, item).sell_price_after_discount.neg
                            = (pct = "150")
                      /\ AvailableIn(t.inventory, item)
                            = AvailableIn(inventory, item) - 1

\* a unit bought at 1.00 is in stock: under a DISCOUNT of 150 the ORDER at
\* 2.00 records the unit price -1.00 and takes 2.00 from the profit
C26_Witness ==
    /\ ~invalid
    /\ Batches(inventory, "A") = <<[qty |-> 1, cost |-> Float("1.00")]>>
    /\ profit = FZero(FALSE)
    /\ LET s == Run(<<"DISCOUNT", "A", "150">>)
           t == ProcessLine(s, <<"ORDER", "A", "1", "2.00">>)
       IN  /\ ~t.invalid
           /\ Sold(s, "A").sell_price_after_discount = FOfInt(-1)
           /\ t.profit = FOfInt(-2)
           /\ ProcessLine(t, <<"PROFIT">>).out = <<"Profit/Loss: $-2.00">>

(***************************************************************************)
(* C27: every command runs to its end from every reachable state: the loop *)
(* over the batches of an ORDER and of an EXPIRE and the loops over the    *)
(* records and the components of a RETURN end, and they end with nothing   *)
(* of the quantity of the command outstanding.                             *)
(***************************************************************************)
\* the loops of the accepted commands end with remaining_qty = 0
C27_LoopsConsumeAll ==
    (~invalid /\ ~raised) =>
        /\ \A line \in OrderLines :
              (Quantity(line) > 0 /\ FSign(Float(line[4])) >= 0
                   /\ ~Oversell(line)) =>
                 LET r == OrderLoop(Batches(inventory, line[2]), Quantity(line),
                                    Float(line[4]), profit, <<>>)
                 IN  /\ r.remaining_qty = 0
                     /\ SumQty(r.components) = Quantity(line)
                     /\ ~Run(line).invalid
        /\ \A line \in ExpireLines :
              (Quantity(line) > 0 /\ ~OverExpire(line)) =>
                 /\ ExpireLoop(Batches(inventory, line[2]), Quantity(line),
                               profit).remaining_qty = 0
                 /\ ~Run(line).invalid
        /\ \A line \in ReturnLines :
              (Quantity(line) > 0 /\ ~OverReturn(line)) =>
                 LET lots == Records(sales, line[2], Float(line[4]))
                 IN  /\ ReturnLots(lots, LotOrder(lots), Quantity(line),
                                    profit).remaining_qty = 0
                     /\ ~Run(line).invalid

\* no call of process_line is left by an exception, and the loops consume all
C27_CommandsComplete == ~raised /\ C27_LoopsConsumeAll

\* two units are in stock and a command has raised: the run is over
C27_Witness ==
    /\ raised
    /\ ~invalid
    /\ AvailableIn(inventory, "A") = 2

(***************************************************************************)
(* C28: in every reachable state the profit is the sum, over the           *)
(* components held in the sale records, of qty times (unit price after     *)
(* discount less unit cost), less the cost of all the units expired so     *)
(* far; STOCK, DISCOUNT, DISCOUNT_END, CHECK and PROFIT leave the profit   *)
(* as it is.                                                               *)
(***************************************************************************)
RECURSIVE MarginOf(_)
MarginOf(components) ==
    IF components = <<>> THEN FZero(FALSE)
    ELSE FAdd(FMul(FOfInt(Head(components).qty), UnitProfit(Head(components))),
              MarginOf(Tail(components)))

RECURSIVE MarginOfLots(_)
MarginOfLots(lots) ==
    IF lots = <<>> THEN FZero(FALSE)
    ELSE FAdd(MarginOf(Head(lots).components), MarginOfLots(Tail(lots)))

RECURSIVE MarginOfPrices(_, _)
MarginOfPrices(byPrice, prices) ==
    IF prices = {} THEN FZero(FALSE)
    ELSE LET p == CHOOSE p \in prices : TRUE
         IN  FAdd(MarginOfLots(byPrice[p]),
                  MarginOfPrices(byPrice, prices \ {p}))

RECURSIVE MarginOfItems(_)
MarginOfItems(items) ==
    IF items = {} THEN FZero(FALSE)
    ELSE LET i == CHOOSE i \in items : TRUE
         IN  FAdd(MarginOfPrices(sales[i], DOMAIN sales[i]),
                  MarginOfItems(items \ {i}))

\* the margin of the units sold and not returned
HeldMargin == MarginOfItems(DOMAIN sales)

\* x == y of two floats
Same(x, y) == FSign(FSub(x, y)) = 0

\* the commands that neither sell, return nor write off
Bystanders == {"STOCK", "DISCOUNT", "DISCOUNT_END", "CHECK", "PROFIT"}

C28_BystandersKeepProfit ==
    \A line \in AllLines :
        Keyword(line) \in Bystanders => Run(line).profit = profit

\* the account holds to the cent
C28_ProfitToTheCent ==
    Cents(profit) = Cents(FSub(HeldMargin, written_off))

C28_ProfitAccounts ==
    /\ Same(profit, FSub(HeldMargin, written_off))
    /\ C28_BystandersKeepProfit

\* two units sold under a discount and returned, nothing held and nothing
\* expired: the profit is not 0 and PROFIT prints it as -0.00
C28_Witness ==
    /\ ~invalid
    /\ sold["A"] = 2
    /\ returned["A"] = 2
    /\ expired["A"] = 0
    /\ HeldMargin = FZero(FALSE)
    /\ written_off = FZero(FALSE)
    /\ FSign(profit) < 0
    /\ Run(<<"PROFIT">>).out = <<"Profit/Loss: $-0.00">>

(***************************************************************************)
(* C29: in every reachable state and for every item, the units accepted by *)
(* STOCK are the units available plus the units expired plus the units     *)
(* sold, and the units sold are the units remaining in the item's sale     *)
(* records plus the units returned; hence neither the available nor the    *)
(* returnable quantity of an item exceeds what was stocked of it.          *)
(***************************************************************************)
\* the units of an item remaining in its sale records, all prices together
RECURSIVE HeldUnder(_, _)
HeldUnder(byPrice, prices) ==
    IF prices = {} THEN 0
    ELSE LET p == CHOOSE p \in prices : TRUE
         IN  SumTotalQty(byPrice[p]) + HeldUnder(byPrice, prices \ {p})

Held(item) ==
    IF item \in DOMAIN sales THEN HeldUnder(sales[item], DOMAIN sales[item])
    ELSE 0

C29_UnitsConserved ==
    \A item \in ItemNames :
        /\ stocked[item]
              = AvailableIn(inventory, item) + expired[item] + sold[item]
        /\ sold[item] = Held(item) + returned[item]
        /\ AvailableIn(inventory, item) <= stocked[item]
        /\ Held(item) <= stocked[item]
        /\ \A sell \in {Float("1.00"), Float("2.00")} :
              Returnable(sales, item, sell) <= stocked[item]

\* of two units stocked one was expired and one was sold and returned:
\* none is available and none is held in a sale record
C29_Witness ==
    /\ ~invalid
    /\ stocked["A"] = 2
    /\ expired["A"] = 1
    /\ sold["A"] = 1
    /\ returned["A"] = 1
    /\ AvailableIn(inventory, "A") = 0
    /\ Held("A") = 0

====
